---- MODULE Spec2Model ----
(***************************************************************************)
(* A model of the vim-mdpreview server: the markdown processor with its    *)
(* document cache (markdown_processor.py), the inclusion resolver with its *)
(* mtime file cache (wikilinks.py), the LaTeX tag rewriter                 *)
(* (latex_processor.py) and the debounce/broadcast coordinator             *)
(* (preview_server.py).                                                    *)
(*                                                                         *)
(* Text is a sequence of tokens <<kind, a, b>>, a and b sequences of       *)
(* strings.  A file name is a sequence of name segments, <<"A", "md">> for *)
(* A.md, so that appending an extension is sequence concatenation.         *)
(***************************************************************************)
EXTENDS Integers, Sequences, FiniteSets, TLC

VARIABLES
    \* ---- the file system under base_path
    files,               \* path -> [exists, is_file, stat_error, mtime, content, readable]
    \* ---- WikiLinkProcessor
    included_files,      \* set of paths included by the current render
    _file_cache,         \* insertion-ordered dict: Seq of [path, mtime, content]
    wl_cache_hits,       \* WikiLinkProcessor._cache_hits
    wl_cache_misses,     \* WikiLinkProcessor._cache_misses
    \* ---- MarkdownProcessor
    _content_cache,      \* insertion-ordered dict: Seq of [key, content, html]
    _last_hash,          \* key of the last full render, or NoHash
    _incremental_enabled,
    HAS_MD4C,            \* import md4c succeeded
    HAS_MARKDOWN,        \* import markdown succeeded
    \* ---- record of the last call made to the processor (history)
    last,
    ncalls,
    \* ---- PreviewServer
    loop,                \* server.loop is set
    loop_ready,          \* queue_update coroutines handed to the loop, oldest first
    _pending_update,     \* NoUpdate or [content, wl, latex, scroll, uid]
    _debounce_task,      \* 0 (None) or the index in tasks of the current task
    tasks,               \* every _debounced_update task made: Seq of [state, timer]
    _update_lock,        \* 0 (free) or the task that holds it while suspended
    blocked,             \* the loop's thread waits in _update_lock.acquire()
    clients,             \* the subscriber set
    subs,                \* subscriber -> "new" | "handshaking" | "open" | "closed"
    current_html,
    inflight,            \* subscribers whose send of the running gather is pending
    _update_count,
    srv_cache_hits,      \* PreviewServer._cache_hits
    \* ---- history of the coordinator
    submitted,           \* payloads received by do_POST, in order
    calls,               \* queue_update calls begun on the loop: Seq of [uid, in_window]
    renders,             \* process_markdown calls: Seq of records
    sends,               \* messages handed to a subscriber's send
    failed               \* the sends that raised

procVars == <<included_files, _file_cache, wl_cache_hits, wl_cache_misses,
              _content_cache, _last_hash, _incremental_enabled>>
envVars  == <<files, HAS_MD4C, HAS_MARKDOWN>>
histVars == <<last, ncalls>>
coordVars == <<loop, loop_ready, _pending_update, _debounce_task, tasks, _update_lock,
               blocked, clients, subs, current_html, inflight, _update_count,
               srv_cache_hits>>
coordHist == <<submitted, calls, renders, sends, failed>>
vars     == <<procVars, envVars, histVars, coordVars, coordHist>>

-----------------------------------------------------------------------------
(* Bounds of the model. *)
MaxCalls == 3
MaxMtime == 2
MaxUpdates == 2
MaxSubs == 1
MaxCacheCalls == 13
MaxFileReads == 52
MaxBroadcasts == 2
MaxBroadcastSubs == 2
MaxRequests == 2
MaxPieces == 5

(* Program constants. *)
DocCacheSize  == 10
FileCacheSize == 50

-----------------------------------------------------------------------------
(* Tokens of markdown text and of HTML. *)
Txt(s)             == <<"text", <<s>>, <<>>>>
Incl(target, title) == <<"incl", target, title>>       \* [[!target]] / [[!target|title]]
Wiki(target, text) == <<"wikilink", target, text>>     \* [[target]] / [[target|text]]
Math(expr, kind)   == <<"math", <<expr>>, <<kind>>>>   \* $expr$ / $$expr$$

NoPath == <<>>
NoHash == <<>>

RECURSIVE CountKind(_, _)
CountKind(s, k) ==
    IF s = <<>> THEN 0
    ELSE (IF Head(s)[1] = k THEN 1 ELSE 0) + CountKind(Tail(s), k)

HasTok(s, t) == \E i \in 1..Len(s) : s[i] = t

-----------------------------------------------------------------------------
(* wikilinks.py *)

extensions_exact_first == << <<>>, <<"md">>, <<"markdown">> >>

extensions == << <<"md">>, <<"markdown">>, <<>> >>

\* file_path.exists() and file_path.is_file()
IsFile(fs, path) == path \in DOMAIN fs /\ fs[path].exists /\ fs[path].is_file

\* file_path.exists() raises: the stat of the path fails with an OSError other
\* than "no such file" (a name too long, a directory that may not be searched)
StatRaises(fs, path) == path \in DOMAIN fs /\ fs[path].stat_error

\* resolve_file_path: the first of target.md, target.markdown, target that is a file
RECURSIVE ResolveFrom(_, _, _)
ResolveFrom(fs, target, exts) ==
    IF exts = <<>> THEN NoPath
    ELSE IF IsFile(fs, target \o Head(exts)) THEN target \o Head(exts)
    ELSE ResolveFrom(fs, target, Tail(exts))

resolve_file_path(fs, target) == ResolveFrom(fs, target, extensions)

\* resolve_file_path raises instead of returning: a candidate tried before the
\* first existing file makes exists() raise
RECURSIVE ResolveRaisesFrom(_, _, _)
ResolveRaisesFrom(fs, target, exts) ==
    IF exts = <<>> THEN FALSE
    ELSE IF StatRaises(fs, target \o Head(exts)) THEN TRUE
    ELSE IF IsFile(fs, target \o Head(exts)) THEN FALSE
    ELSE ResolveRaisesFrom(fs, target, Tail(exts))

resolve_file_path_raises(fs, target) == ResolveRaisesFrom(fs, target, extensions)

format_inclusion_error(target, error_msg) == <<"inclusion_error", error_msg, target>>

CacheIndex(cache, path) ==
    IF \E i \in 1..Len(cache) : cache[i].path = path
    THEN CHOOSE i \in 1..Len(cache) : cache[i].path = path
    ELSE 0

\* dict[key] = value: an existing key keeps its place, a new key goes last
DictPut(cache, i, entry) ==
    IF i = 0 THEN Append(cache, entry) ELSE [cache EXCEPT ![i] = entry]

KeepLast_first(cache, n) ==
    IF Len(cache) > n THEN SubSeq(cache, 1, n) ELSE cache

\* list(d.keys())[:-n] deleted: the last n entries stay
KeepLast(cache, n) ==
    IF Len(cache) > n THEN SubSeq(cache, Len(cache) - n + 1, Len(cache)) ELSE cache

\* The resolver's state threaded through one render.
\*   W = [inc, fc, hits, misses]
\* _read_file_cached returns [W, ok, content, exc, disk_read]
_read_file_cached_stale(W, fs, filepath) ==
    LET i == CacheIndex(W.fc, filepath) IN
    IF i # 0
    THEN [W |-> [W EXCEPT !.hits = @ + 1], ok |-> TRUE,
          content |-> W.fc[i].content, exc |-> <<>>, disk_read |-> FALSE]
    ELSE IF ~fs[filepath].readable
    THEN [W |-> [W EXCEPT !.misses = @ + 1], ok |-> FALSE,
          content |-> <<>>, exc |-> <<"PermissionError">>, disk_read |-> TRUE]
    ELSE [W |-> [W EXCEPT !.misses = @ + 1,
                          !.fc = KeepLast(Append(@, [path |-> filepath,
                                     mtime |-> fs[filepath].mtime,
                                     content |-> fs[filepath].content]), FileCacheSize)],
          ok |-> TRUE, content |-> fs[filepath].content, exc |-> <<>>,
          disk_read |-> TRUE]

_read_file_cached(W, fs, filepath) ==
    LET current_mtime == fs[filepath].mtime
        i == CacheIndex(W.fc, filepath)
    IN
    IF i # 0 /\ W.fc[i].mtime = current_mtime
    THEN [W |-> [W EXCEPT !.hits = @ + 1], ok |-> TRUE,
          content |-> W.fc[i].content, exc |-> <<>>, disk_read |-> FALSE]
    ELSE IF ~fs[filepath].readable
    THEN \* read_text raises after the miss was counted; nothing is stored
         [W |-> [W EXCEPT !.misses = @ + 1], ok |-> FALSE,
          content |-> <<>>, exc |-> <<"PermissionError">>, disk_read |-> TRUE]
    ELSE [W |-> [W EXCEPT !.misses = @ + 1,
                          !.fc = KeepLast(DictPut(@, i, [path |-> filepath,
                                     mtime |-> current_mtime,
                                     content |-> fs[filepath].content]), FileCacheSize)],
          ok |-> TRUE, content |-> fs[filepath].content, exc |-> <<>>,
          disk_read |-> TRUE]

\* replace_inclusion: the replacement of one [[!target|title]] match.
\*   R = [W, out, reads, exc]   (reads counts the calls of _read_file_cached,
\*   exc is the exception that left replace_inclusion, <<>> for none)
replace_inclusion(R, fs, tok) ==
    LET target == tok[2]
        title  == IF tok[3] # <<>> THEN tok[3] ELSE target
        resolved_path == resolve_file_path(fs, target)
    IN
    IF resolve_file_path_raises(fs, target)
    THEN \* line 50 is outside the try block
         [R EXCEPT !.exc = <<"OSError">>]
    ELSE IF resolved_path = NoPath
    THEN [R EXCEPT !.out = @ \o <<format_inclusion_error(target, <<"File not found">>)>>]
    ELSE IF resolved_path \in R.W.inc
    THEN [R EXCEPT !.out = @ \o
             <<format_inclusion_error(target, <<"Circular inclusion detected">>)>>]
    ELSE LET rd == _read_file_cached(R.W, fs, resolved_path) IN
         IF rd.ok
         THEN [W |-> [rd.W EXCEPT !.inc = @ \cup {resolved_path}],
               out |-> R.out \o << <<"div_included", title, <<>>>> >>
                             \o rd.content
                             \o << <<"div_end", <<>>, <<>>>> >>,
               reads |-> R.reads + 1, exc |-> <<>>]
         ELSE [W |-> rd.W,
               out |-> R.out \o <<format_inclusion_error(target,
                                     <<"Cannot read file">> \o rd.exc)>>,
               reads |-> R.reads + 1, exc |-> <<>>]

\* re.sub(pattern, replace_inclusion, text): one pass over the matches of the
\* text it is given, left to right; replacements are not scanned again.  An
\* exception in a replacement ends the pass.
RECURSIVE SubInclusions(_, _, _)
SubInclusions(R, fs, text) ==
    IF text = <<>> \/ R.exc # <<>> THEN R
    ELSE LET tok == Head(text)
             R1  == IF tok[1] = "incl" THEN replace_inclusion(R, fs, tok)
                    ELSE [R EXCEPT !.out = Append(@, tok)]
         IN SubInclusions(R1, fs, Tail(text))

process_inclusions_rescan(W, fs, markdown_text) ==
    LET r1 == SubInclusions([W |-> W, out |-> <<>>, reads |-> 0, exc |-> <<>>],
                            fs, markdown_text)
    IN  SubInclusions([W |-> r1.W, out |-> <<>>, reads |-> r1.reads, exc |-> r1.exc],
                      fs, r1.out)

process_inclusions(W, fs, markdown_text) ==
    SubInclusions([W |-> W, out |-> <<>>, reads |-> 0, exc |-> <<>>], fs, markdown_text)

\* process: inclusions only; wiki-links are rewritten after the conversion
process(W, fs, markdown_text) == process_inclusions(W, fs, markdown_text)

\* process_wikilink_html: <x-wikilink> tags first, then raw [[...]] brackets.
\* A raw [[!T|x]] left in the text matches the bracket pattern with target !T.
replace_md4c_link(tok) ==
    IF tok[1] = "x-wikilink" THEN <<"a", tok[2], tok[3]>> ELSE tok

replace_bracket_link(tok) ==
    IF tok[1] = "wikilink"
    THEN <<"a", tok[2], IF tok[3] # <<>> THEN tok[3] ELSE tok[2]>>
    ELSE IF tok[1] = "incl"
    THEN <<"a", <<"!">> \o tok[2], IF tok[3] # <<>> THEN tok[3] ELSE <<"!">> \o tok[2]>>
    ELSE tok

RECURSIVE SubMd4cLinks(_)
SubMd4cLinks(s) ==
    IF s = <<>> THEN <<>> ELSE <<replace_md4c_link(Head(s))>> \o SubMd4cLinks(Tail(s))

RECURSIVE SubBracketLinks(_)
SubBracketLinks(s) ==
    IF s = <<>> THEN <<>> ELSE <<replace_bracket_link(Head(s))>> \o SubBracketLinks(Tail(s))

process_wikilink_html(html) == SubBracketLinks(SubMd4cLinks(html))

\* process_wikilink_html on the characters of the HTML.  A string is a
\* sequence of characters; a fixed piece of markup that the two patterns can
\* only take or refuse as a whole is one symbol:
\*   TAG_OPEN   <x-wikilink data-target="        TAG_CLOSE  </x-wikilink>
\*   MID        ">                               A_CLOSE    </a>
\*   A_OPEN     <a href="wiki:                   A_ATTR     " class="wiki-link" data-target="
QuoteSymbols == {"TAG_OPEN", "MID", "A_OPEN", "A_ATTR"}          \* hold a "
AngleSymbols == {"TAG_OPEN", "TAG_CLOSE", "A_OPEN", "A_CLOSE"}   \* hold a <

\* the length of the longest run of characters outside excl that starts at s[i]
RECURSIVE RunLength(_, _, _)
RunLength(s, i, excl) ==
    IF i > Len(s) \/ s[i] \in excl THEN 0 ELSE 1 + RunLength(s, i + 1, excl)

Sym(s, i) == IF i >= 1 /\ i <= Len(s) THEN s[i] ELSE "END"

NoMatch == [ok |-> FALSE, target |-> <<>>, text |-> <<>>, has_text |-> FALSE, end |-> 0]

\* pattern1 = <x-wikilink data-target="([^"]+)">([^<]+)</x-wikilink> matched at i
match_pattern1(s, i) ==
    IF Sym(s, i) # "TAG_OPEN" THEN NoMatch
    ELSE LET n1 == RunLength(s, i + 1, QuoteSymbols)
             j  == i + 1 + n1
             n2 == RunLength(s, j + 1, AngleSymbols)
             k  == j + 1 + n2
         IN IF n1 >= 1 /\ Sym(s, j) = "MID" /\ n2 >= 1 /\ Sym(s, k) = "TAG_CLOSE"
            THEN [ok |-> TRUE, target |-> SubSeq(s, i + 1, j - 1),
                  text |-> SubSeq(s, j + 1, k - 1), has_text |-> TRUE, end |-> k + 1]
            ELSE NoMatch

\* pattern2 = \[\[([^\]|]+)(?:\|([^\]]+))?\]\] matched at i.  A run of either
\* class can only be followed by the character the pattern wants next when it
\* is the longest one, so backtracking finds nothing more.
match_pattern2(s, i) ==
    IF ~(Sym(s, i) = "[" /\ Sym(s, i + 1) = "[") THEN NoMatch
    ELSE LET n1 == RunLength(s, i + 2, {"]", "|"})
             j  == i + 2 + n1
             n2 == RunLength(s, j + 1, {"]"})
             k  == j + 1 + n2
         IN IF n1 = 0 THEN NoMatch
            ELSE IF Sym(s, j) = "|" /\ n2 >= 1 /\ Sym(s, k) = "]" /\ Sym(s, k + 1) = "]"
            THEN [ok |-> TRUE, target |-> SubSeq(s, i + 2, j - 1),
                  text |-> SubSeq(s, j + 1, k - 1), has_text |-> TRUE, end |-> k + 2]
            ELSE IF Sym(s, j) = "]" /\ Sym(s, j + 1) = "]"
            THEN [ok |-> TRUE, target |-> SubSeq(s, i + 2, j - 1),
                  text |-> <<>>, has_text |-> FALSE, end |-> j + 2]
            ELSE NoMatch

\* str.strip()
RECURSIVE lstrip(_)
lstrip(s) == IF s # <<>> /\ Head(s) = " " THEN lstrip(Tail(s)) ELSE s

RECURSIVE rstrip(_)
rstrip(s) ==
    IF s # <<>> /\ s[Len(s)] = " " THEN rstrip(SubSeq(s, 1, Len(s) - 1)) ELSE s

strip(s) == rstrip(lstrip(s))

\* f'<a href="wiki:{target}" class="wiki-link" data-target="{target}">{text}</a>'
anchor(target, text) ==
    <<"A_OPEN">> \o target \o <<"A_ATTR">> \o target \o <<"MID">> \o text \o <<"A_CLOSE">>

replace_md4c_link_str(m) == anchor(m.target, m.text)

replace_bracket_link_unstripped(m) ==
    anchor(m.target, IF m.has_text THEN m.text ELSE m.target)

\* match.group(2) is None when the bar part did not take part in the match
replace_bracket_link_str(m) ==
    LET target == strip(m.target)
    IN anchor(target, IF m.has_text THEN strip(m.text) ELSE target)

\* re.sub: leftmost matches from left to right, what is put in is not scanned
RECURSIVE sub_pattern1(_, _)
sub_pattern1(s, i) ==
    IF i > Len(s) THEN <<>>
    ELSE LET m == match_pattern1(s, i)
         IN IF m.ok THEN replace_md4c_link_str(m) \o sub_pattern1(s, m.end)
            ELSE <<s[i]>> \o sub_pattern1(s, i + 1)

RECURSIVE sub_pattern2(_, _)
sub_pattern2(s, i) ==
    IF i > Len(s) THEN <<>>
    ELSE LET m == match_pattern2(s, i)
         IN IF m.ok THEN replace_bracket_link_str(m) \o sub_pattern2(s, m.end)
            ELSE <<s[i]>> \o sub_pattern2(s, i + 1)

process_wikilink_html_str(html) == sub_pattern2(sub_pattern1(html, 1), 1)

clear_inclusion_cache_kept(W) == W

clear_inclusion_cache(W) == [W EXCEPT !.inc = {}]

clear_file_cache(W) == [W EXCEPT !.fc = <<>>, !.hits = 0, !.misses = 0]

-----------------------------------------------------------------------------
(* latex_processor.py *)

\* process: <x-equation type="display">E</x-equation> -> $$E$$,
\*          <x-equation>E</x-equation> -> $E$
latex_rewrite(tok) ==
    IF tok[1] = "x-equation" THEN <<"math", tok[2], tok[3]>> ELSE tok

RECURSIVE SubEquations(_)
SubEquations(s) ==
    IF s = <<>> THEN <<>> ELSE <<latex_rewrite(Head(s))>> \o SubEquations(Tail(s))

latex_process(html) == SubEquations(html)

-----------------------------------------------------------------------------
(* markdown_processor.py *)

\* _convert_with_md4c: tables, strikethrough, and with the flags set wiki-links
\* and LaTeX spans, come out as tags
md4c_token(tok, enable_wikilinks, enable_latex) ==
    CASE tok[1] = "text"   -> <<"p", tok[2], <<>>>>
      [] tok[1] = "table"  -> <<"table_html", tok[2], <<>>>>
      [] tok[1] = "strike" -> <<"del", tok[2], <<>>>>
      [] tok[1] = "wikilink" /\ enable_wikilinks ->
             <<"x-wikilink", tok[2], IF tok[3] # <<>> THEN tok[3] ELSE tok[2]>>
      [] tok[1] = "incl" /\ enable_wikilinks ->
             <<"x-wikilink", <<"!">> \o tok[2],
               IF tok[3] # <<>> THEN tok[3] ELSE <<"!">> \o tok[2]>>
      [] tok[1] = "math" /\ enable_latex -> <<"x-equation", tok[2], tok[3]>>
      [] OTHER -> tok

RECURSIVE Md4cTokens(_, _, _)
Md4cTokens(text, enable_wikilinks, enable_latex) ==
    IF text = <<>> THEN <<>>
    ELSE <<md4c_token(Head(text), enable_wikilinks, enable_latex)>>
         \o Md4cTokens(Tail(text), enable_wikilinks, enable_latex)

\* _convert_with_markdown: tables extension, no strikethrough; $..$ protected
\* and restored; [[..]] left as written
markdown_token(tok) ==
    CASE tok[1] = "text"  -> <<"p", tok[2], <<>>>>
      [] tok[1] = "table" -> <<"table_html", tok[2], <<>>>>
      [] OTHER -> tok

RECURSIVE MarkdownTokens(_)
MarkdownTokens(s) ==
    IF s = <<>> THEN <<>> ELSE <<markdown_token(Head(s))>> \o MarkdownTokens(Tail(s))

_convert_with_markdown(text) == MarkdownTokens(text)

\* _convert_simple: headers, bold/italic, code, paragraphs; $..$ protected
simple_token(tok) ==
    CASE tok[1] = "text" -> <<"p", tok[2], <<>>>>
      [] OTHER -> tok

RECURSIVE SimpleTokens(_)
SimpleTokens(s) ==
    IF s = <<>> THEN <<>> ELSE <<simple_token(Head(s))>> \o SimpleTokens(Tail(s))

_convert_simple(text) == SimpleTokens(text)

\* md4c.parse(text, flags) raises on some texts; which ones is the library's
\* matter, here those holding a token it cannot take
md4c_parse_raises(text) == \E i \in 1..Len(text) : text[i][1] = "unparsable"

_convert_with_md4c_then_markdown(text, enable_wikilinks, enable_latex) ==
    IF md4c_parse_raises(text)
    THEN _convert_with_markdown(text)
    ELSE Md4cTokens(text, enable_wikilinks, enable_latex)

\* "except Exception as e: ... return self._convert_simple(text)"
_convert_with_md4c(text, enable_wikilinks, enable_latex) ==
    IF md4c_parse_raises(text)
    THEN _convert_simple(text)
    ELSE Md4cTokens(text, enable_wikilinks, enable_latex)

\* the converters markdown_to_html calls for text, in order
backend_calls(env, text) ==
    IF env.md4c
    THEN IF md4c_parse_raises(text) THEN <<"md4c", "simple">> ELSE <<"md4c">>
    ELSE IF env.markdown THEN <<"markdown">>
    ELSE <<"simple">>

\* env = [md4c, markdown]: which imports succeeded
markdown_to_html(env, text, enable_wikilinks, enable_latex) ==
    IF env.md4c THEN _convert_with_md4c(text, enable_wikilinks, enable_latex)
    ELSE IF env.markdown THEN _convert_with_markdown(text)
    ELSE _convert_simple(text)

\* _hash_content: md5 of "{text}|{enable_wikilinks}|{enable_latex}".  The two
\* flags print as True/False after the last two bars, so the string determines
\* the triple; the key is modelled by the triple.
_hash_content(text, enable_wikilinks, enable_latex) ==
    <<text, enable_wikilinks, enable_latex>>

KeyIndex(cache, key) ==
    IF \E i \in 1..Len(cache) : cache[i].key = key
    THEN CHOOSE i \in 1..Len(cache) : cache[i].key = key
    ELSE 0

\* The processor's state:  M = [W, cc, lh, incr]

convert_cache_check_dropped(M, content_hash, force) == FALSE

\* "Check cache unless forced": the key must be the last one rendered, and
\* still in the cache
convert_cache_check(M, content_hash, force) ==
    /\ ~force /\ M.incr
    /\ content_hash = M.lh /\ KeyIndex(M.cc, content_hash) # 0

\* convert returns [M, html, ran, reads, exc]; ran says the pipeline was run,
\* exc is the exception convert raised (<<>> for none, and then html is returned)
convert(M, fs, env, markdown_text, enable_wikilinks, enable_latex, force) ==
    LET content_hash == _hash_content(markdown_text, enable_wikilinks, enable_latex)
        i == KeyIndex(M.cc, content_hash)
    IN
    IF convert_cache_check(M, content_hash, force)
    THEN [M |-> M, html |-> M.cc[i].html, ran |-> FALSE, reads |-> 0, exc |-> <<>>]
    ELSE
      LET W0 == clear_inclusion_cache(M.W)
          \* Step 1: inclusions; markdown_text is rebound to the expanded text
          r  == IF enable_wikilinks THEN process(W0, fs, markdown_text)
                ELSE [W |-> W0, out |-> markdown_text, reads |-> 0, exc |-> <<>>]
          \* Step 2: markdown to HTML
          h1 == markdown_to_html(env, r.out, enable_wikilinks, enable_latex)
          \* Step 3: wiki-link tags
          h2 == IF enable_wikilinks THEN process_wikilink_html(h1) ELSE h1
          \* Step 4: LaTeX tags
          h3 == IF enable_latex THEN latex_process(h2) ELSE h2
      IN IF r.exc # <<>>
         THEN \* raised in step 1: nothing is stored, the resolver keeps its changes
              [M |-> [M EXCEPT !.W = r.W], html |-> <<>>, ran |-> TRUE,
               reads |-> r.reads, exc |-> r.exc]
         ELSE [M |-> [W |-> r.W,
                 cc |-> KeepLast(DictPut(M.cc, i, [key |-> content_hash,
                                      content |-> r.out, html |-> h3]), DocCacheSize),
                 lh |-> content_hash, incr |-> M.incr],
               html |-> h3, ran |-> TRUE, reads |-> r.reads, exc |-> <<>>]

clear_cache_guard_only(M) == [M EXCEPT !.W = clear_inclusion_cache(@)]

\* clear_cache: _content_cache.clear(), _last_hash = None, clear_inclusion_cache()
clear_cache(M) ==
    [M EXCEPT !.cc = <<>>, !.lh = NoHash, !.W = clear_inclusion_cache(@)]

-----------------------------------------------------------------------------
(* Inputs of the model: inclusion targets, the files under base_path, the   *)
(* contents a file may get and the documents sent for rendering.            *)

TA == <<"A">>
TB == <<"B">>
TC == <<"C">>
PathA == <<"A", "md">>
PathB == <<"B", "md">>
PathC == <<"C", "md">>
PathPool == {PathA, PathB, PathC}

InclB == <<Incl(TB, <<>>)>>
InclA == <<Incl(TA, <<>>)>>
ContentPool == {InclB, InclA, <<Txt("x")>>}

DocPool == {InclB, <<Incl(TA, <<>>), Incl(TB, <<"b">>)>>, <<Txt("d"), Incl(TC, <<>>)>>}
FlagPool == {<<TRUE, TRUE>>, <<TRUE, FALSE>>, <<FALSE, TRUE>>}

-----------------------------------------------------------------------------
(* The processor's fields as one record, and back. *)

Wiki0 == [inc |-> {}, fc |-> <<>>, hits |-> 0, misses |-> 0]

WikiState == [inc |-> included_files, fc |-> _file_cache,
              hits |-> wl_cache_hits, misses |-> wl_cache_misses]

ProcState == [W |-> WikiState, cc |-> _content_cache, lh |-> _last_hash,
              incr |-> _incremental_enabled]

Env == [md4c |-> HAS_MD4C, markdown |-> HAS_MARKDOWN]

SetWiki(W) ==
    /\ included_files' = W.inc
    /\ _file_cache' = W.fc
    /\ wl_cache_hits' = W.hits
    /\ wl_cache_misses' = W.misses

SetProc(M) ==
    /\ SetWiki(M.W)
    /\ _content_cache' = M.cc
    /\ _last_hash' = M.lh
    /\ _incremental_enabled' = M.incr

\* what a processor with empty caches renders from the files as they are
FreshHtml(fs, env, text, wl, latex) ==
    convert([W |-> Wiki0, cc |-> <<>>, lh |-> NoHash, incr |-> TRUE],
            fs, env, text, wl, latex, FALSE).html

\* the paths the inclusion markers of a text resolve to
IncludedPaths(fs, text) ==
    {resolve_file_path(fs, text[i][2]) : i \in {j \in 1..Len(text) : text[j][1] = "incl"}}
        \ {NoPath}

\* no cache entry with the file's mtime and another content
Coherent(fc, fs) ==
    \A i \in 1..Len(fc) :
        fs[fc[i].path].mtime = fc[i].mtime => fs[fc[i].path].content = fc[i].content

Last0 == [op |-> "init", text |-> <<>>, wl |-> FALSE, latex |-> FALSE, force |-> FALSE,
          html |-> <<>>, ran |-> FALSE, reads |-> 0, present |-> FALSE,
          stored |-> <<>>, same_as_prev |-> FALSE, changed |-> {}, dirty |-> {},
          coherent |-> TRUE, path |-> NoPath, ok |-> FALSE, ret |-> <<>>,
          disk_read |-> FALSE, exc |-> <<>>, target |-> <<>>, inc0 |-> {}, n |-> 0,
          backends |-> <<>>]

-----------------------------------------------------------------------------
(* preview_server.py: PreviewServer.__init__ *)

NoUpdate == <<>>
Subscribers == 1..MaxSubs

CoordInit ==
    /\ loop = FALSE
    /\ loop_ready = <<>>
    /\ _pending_update = NoUpdate
    /\ _debounce_task = 0
    /\ tasks = <<>>
    /\ _update_lock = 0
    /\ blocked = FALSE
    /\ clients = {}
    /\ subs = [c \in Subscribers |-> "new"]
    /\ current_html = <<>>
    /\ inflight = {}
    /\ _update_count = 0
    /\ srv_cache_hits = 0
    /\ submitted = <<>>
    /\ calls = <<>>
    /\ renders = <<>>
    /\ sends = {}
    /\ failed = {}

-----------------------------------------------------------------------------
(* The processor driven through its methods. *)

InitProc ==
    /\ files = [p \in PathPool |->
                   [exists |-> TRUE, is_file |-> TRUE, stat_error |-> FALSE,
                    mtime |-> 0, readable |-> (p # PathC),
                    content |-> IF p = PathA THEN InclB
                                ELSE IF p = PathB THEN InclA ELSE <<Txt("x")>>]]
    /\ included_files = {}
    /\ _file_cache = <<>>
    /\ wl_cache_hits = 0
    /\ wl_cache_misses = 0
    /\ _content_cache = <<>>
    /\ _last_hash = NoHash
    /\ _incremental_enabled = TRUE
    /\ HAS_MD4C \in BOOLEAN
    /\ HAS_MARKDOWN \in BOOLEAN
    /\ last = Last0
    /\ ncalls = 0
    /\ CoordInit

\* MarkdownProcessor.convert(markdown_text, enable_wikilinks, enable_latex, force)
Convert(text, wl, latex, force) ==
    /\ ncalls < MaxCalls
    /\ LET key == _hash_content(text, wl, latex)
           i   == KeyIndex(_content_cache, key)
           r   == convert(ProcState, files, Env, text, wl, latex, force)
           inc == IncludedPaths(files, text)
       IN /\ SetProc(r.M)
          /\ last' = [Last0 EXCEPT
                 !.op = "convert", !.text = text, !.wl = wl, !.latex = latex,
                 !.force = force, !.html = r.html, !.ran = r.ran, !.reads = r.reads,
                 !.present = (i # 0),
                 !.stored = IF i # 0 THEN _content_cache[i].html ELSE <<>>,
                 !.same_as_prev = (last.op = "convert" /\ last.text = text
                                   /\ last.wl = wl /\ last.latex = latex),
                 !.changed = last.dirty \cap inc,
                 !.dirty = last.dirty \ inc,
                 !.coherent = Coherent(_file_cache, files),
                 !.exc = r.exc, !.inc0 = included_files]
    /\ ncalls' = ncalls + 1
    /\ UNCHANGED <<envVars, coordVars, coordHist>>

\* MarkdownProcessor.clear_cache()
ClearCache ==
    /\ ncalls < MaxCalls
    /\ SetProc(clear_cache(ProcState))
    /\ last' = [Last0 EXCEPT !.op = "clear_cache", !.dirty = last.dirty]
    /\ ncalls' = ncalls + 1
    /\ UNCHANGED <<envVars, coordVars, coordHist>>

\* WikiLinkProcessor._read_file_cached(filepath), on a path that resolved
ReadFileCached(filepath) ==
    /\ ncalls < MaxCalls
    /\ IsFile(files, filepath)
    /\ LET rd == _read_file_cached(WikiState, files, filepath)
       IN /\ SetWiki(rd.W)
          /\ last' = [Last0 EXCEPT !.op = "read", !.path = filepath, !.ok = rd.ok,
                                   !.ret = rd.content, !.disk_read = rd.disk_read,
                                   !.dirty = last.dirty]
    /\ ncalls' = ncalls + 1
    /\ UNCHANGED <<_content_cache, _last_hash, _incremental_enabled, envVars,
                   coordVars, coordHist>>

\* The editor or another program rewrites a file; the mtime moves on, or is
\* kept (a write within the clock's granularity, or a restored timestamp).
WriteFile(path, content, keep_mtime) ==
    /\ ncalls < MaxCalls
    /\ files[path].exists /\ files[path].readable
    /\ keep_mtime \/ files[path].mtime < MaxMtime
    /\ ~keep_mtime \/ content # files[path].content
    /\ files' = [files EXCEPT ![path].content = content,
                              ![path].mtime = IF keep_mtime THEN @ ELSE @ + 1]
    /\ last' = [Last0 EXCEPT !.op = "write", !.path = path,
                   !.dirty = IF ~keep_mtime /\ content # files[path].content
                             THEN last.dirty \cup {path} ELSE last.dirty]
    /\ ncalls' = ncalls + 1
    /\ UNCHANGED <<procVars, HAS_MD4C, HAS_MARKDOWN, coordVars, coordHist>>

NextProc ==
    \/ \E text \in DocPool, fl \in FlagPool, force \in BOOLEAN :
           Convert(text, fl[1], fl[2], force)
    \/ ClearCache
    \/ \E path \in PathPool : ReadFileCached(path)
    \/ \E path \in PathPool, content \in ContentPool, keep \in BOOLEAN :
           WriteFile(path, content, keep)

SpecProc == InitProc /\ [][NextProc]_vars

-----------------------------------------------------------------------------
(* markdown_to_html applied to texts of every kind under every combination   *)
(* of installed libraries.                                                   *)

Table == <<"table", <<"t">>, <<>>>>
Strike == <<"strike", <<"s">>, <<>>>>
Unparsable == <<"unparsable", <<"u">>, <<>>>>

BackendTokens == {Txt("x"), Table, Strike, Unparsable, Wiki(TA, <<>>), Math("e", "inline")}

BackendTextPool ==
    {<<>>} \cup {<<a>> : a \in BackendTokens}
           \cup {<<a, b>> : a \in {Table, Strike, Unparsable}, b \in BackendTokens}

InitBackend ==
    /\ files = [p \in PathPool |->
                   [exists |-> TRUE, is_file |-> TRUE, stat_error |-> FALSE,
                    mtime |-> 0, readable |-> TRUE, content |-> <<Txt("x")>>]]
    /\ included_files = {}
    /\ _file_cache = <<>>
    /\ wl_cache_hits = 0
    /\ wl_cache_misses = 0
    /\ _content_cache = <<>>
    /\ _last_hash = NoHash
    /\ _incremental_enabled = TRUE
    /\ HAS_MD4C \in BOOLEAN
    /\ HAS_MARKDOWN \in BOOLEAN
    /\ last = Last0
    /\ ncalls = 0
    /\ CoordInit

\* MarkdownProcessor.markdown_to_html(text, enable_wikilinks, enable_latex)
MarkdownToHtml(text, wl, latex) ==
    /\ ncalls < MaxCalls
    /\ last' = [Last0 EXCEPT !.op = "markdown_to_html", !.text = text, !.wl = wl,
                             !.latex = latex,
                             !.html = markdown_to_html(Env, text, wl, latex),
                             !.backends = backend_calls(Env, text)]
    /\ ncalls' = ncalls + 1
    /\ UNCHANGED <<procVars, envVars, coordVars, coordHist>>

NextBackend ==
    \E text \in BackendTextPool, wl \in BOOLEAN, latex \in BOOLEAN :
        MarkdownToHtml(text, wl, latex)

SpecBackend == InitBackend /\ [][NextBackend]_vars

-----------------------------------------------------------------------------
(* The inclusion resolver driven through its methods, over file systems in  *)
(* which a target has several candidates, a file is missing or unreadable,  *)
(* or a name cannot be tested for existence.                                *)

TD == <<"D">>                       \* no candidate of D exists
TL == <<"L">>                       \* a name too long for the file system
PathAmarkdown == <<"A", "markdown">>
PathL == <<"L", "md">>
InclPathPool == {PathA, PathAmarkdown, TA, PathB, PathC, PathL}
TargetPool == {TA, TB, TC, TD, TL}

FileKinds == {"none", "file", "dir"}

FileOf(kind, readable, content) ==
    [exists |-> kind # "none", is_file |-> kind = "file", stat_error |-> FALSE,
     mtime |-> 0, readable |-> readable, content |-> content]

InclDocPool ==
    { <<Incl(TD, <<>>), Incl(TB, <<>>)>>,
      <<Incl(TC, <<>>), Txt("d"), Incl(TA, <<"t">>)>>,
      <<Incl(TB, <<>>), Incl(TL, <<>>), Incl(TA, <<>>)>>,
      <<Incl(TA, <<>>), Incl(TB, <<>>), Incl(TA, <<>>)>>,
      <<Incl(TA, <<>>), Incl(TL, <<>>), Incl(TA, <<"t">>)>> }

InitIncl ==
    /\ \E ka, km, kx \in FileKinds, kb \in {"none", "file"} :
          files = [p \in InclPathPool |->
              CASE p = PathA         -> FileOf(ka, TRUE, <<Txt("A.md")>>)
                [] p = PathAmarkdown -> FileOf(km, TRUE, <<Txt("A.markdown")>>)
                [] p = TA            -> FileOf(kx, TRUE, <<Txt("A")>>)
                [] p = PathB         -> FileOf(kb, TRUE, InclA)
                [] p = PathC         -> FileOf("file", FALSE, <<Txt("x")>>)
                [] p = PathL         ->
                       [FileOf("none", FALSE, <<>>) EXCEPT !.stat_error = TRUE]]
    /\ included_files = {}
    /\ _file_cache = <<>>
    /\ wl_cache_hits = 0
    /\ wl_cache_misses = 0
    /\ _content_cache = <<>>
    /\ _last_hash = NoHash
    /\ _incremental_enabled = TRUE
    /\ HAS_MD4C = TRUE
    /\ HAS_MARKDOWN = TRUE
    /\ last = Last0
    /\ ncalls = 0
    /\ CoordInit

\* WikiLinkProcessor.resolve_file_path(target)
ResolveFilePath(target) ==
    /\ ncalls < MaxCalls
    /\ LET raises == resolve_file_path_raises(files, target)
       IN last' = [Last0 EXCEPT !.op = "resolve", !.target = target,
                      !.path = IF raises THEN NoPath ELSE resolve_file_path(files, target),
                      !.exc = IF raises THEN <<"OSError">> ELSE <<>>]
    /\ ncalls' = ncalls + 1
    /\ UNCHANGED <<procVars, envVars, coordVars, coordHist>>

\* WikiLinkProcessor.process_inclusions(markdown_text)
ProcessInclusions(text) ==
    /\ ncalls < MaxCalls
    /\ \E R \in {process_inclusions(WikiState, files, text)} :
          /\ SetWiki(R.W)
          /\ last' = [Last0 EXCEPT !.op = "process_inclusions", !.text = text,
                         !.ret = R.out, !.reads = R.reads, !.exc = R.exc,
                         !.inc0 = included_files]
    /\ ncalls' = ncalls + 1
    /\ UNCHANGED <<_content_cache, _last_hash, _incremental_enabled, envVars,
                   coordVars, coordHist>>

\* WikiLinkProcessor.clear_inclusion_cache()
ClearInclusionCache ==
    /\ ncalls < MaxCalls
    /\ included_files # {}
    /\ SetWiki(clear_inclusion_cache(WikiState))
    /\ last' = [Last0 EXCEPT !.op = "clear_inclusion_cache"]
    /\ ncalls' = ncalls + 1
    /\ UNCHANGED <<_content_cache, _last_hash, _incremental_enabled, envVars,
                   coordVars, coordHist>>

NextIncl ==
    \/ \E target \in TargetPool : ResolveFilePath(target)
    \/ \E text \in InclDocPool : ProcessInclusions(text)
    \/ ClearInclusionCache

SpecIncl == InitIncl /\ [][NextIncl]_vars

-----------------------------------------------------------------------------
(* The resolver given targets that name places outside base_path: a target  *)
(* with a parent-directory segment and an absolute one.  A file name is     *)
(* relative to base_path unless its first segment is "/".                   *)

TUp == <<"..", "secret">>            \* ../secret
TAbs == <<"/", "etc", "hostname">>   \* /etc/hostname
TSub == <<"sub", "..", "A">>         \* sub/../A

PathUp == TUp \o <<"md">>
PathSub == TSub \o <<"md">>

ContainPathPool == {PathA, PathUp, TAbs, PathSub}
ContainTargetPool == {TA, TUp, TAbs, TSub, TD}

ContainDocPool ==
    { <<Incl(TA, <<>>)>>,
      <<Incl(TUp, <<>>)>>,
      <<Incl(TA, <<>>), Incl(TAbs, <<>>)>>,
      <<Incl(TSub, <<>>), Txt("d"), Incl(TD, <<>>)>> }

InitContain ==
    /\ \E ku, ka, ks \in {"none", "file"} :
          files = [p \in ContainPathPool |->
              CASE p = PathA   -> FileOf("file", TRUE, <<Txt("A.md")>>)
                [] p = PathUp  -> FileOf(ku, TRUE, <<Txt("secret")>>)
                [] p = TAbs    -> FileOf(ka, TRUE, <<Txt("hostname")>>)
                [] p = PathSub -> FileOf(ks, TRUE, <<Txt("A.md")>>)]
    /\ included_files = {}
    /\ _file_cache = <<>>
    /\ wl_cache_hits = 0
    /\ wl_cache_misses = 0
    /\ _content_cache = <<>>
    /\ _last_hash = NoHash
    /\ _incremental_enabled = TRUE
    /\ HAS_MD4C = TRUE
    /\ HAS_MARKDOWN = TRUE
    /\ last = Last0
    /\ ncalls = 0
    /\ CoordInit

NextContain ==
    \/ \E target \in ContainTargetPool : ResolveFilePath(target)
    \/ \E text \in ContainDocPool : ProcessInclusions(text)
    \/ ClearInclusionCache

SpecContain == InitContain /\ [][NextContain]_vars

-----------------------------------------------------------------------------
(* process_wikilink_html applied to strings put together from brackets,     *)
(* bars, tag markup, letters and blanks, and to its own results.            *)

Pieces ==
    { <<"[", "[">>, <<"]", "]">>, <<"|">>, <<"a">>, <<" ">>,
      <<"TAG_OPEN">>, <<"MID">>, <<"TAG_CLOSE">> }

RECURSIVE Joined(_)
Joined(ps) == IF ps = <<>> THEN <<>> ELSE Head(ps) \o Joined(Tail(ps))

HtmlPool == {Joined(ps) : ps \in UNION {[1..n -> Pieces] : n \in 0..MaxPieces}}

InitWikiHtml ==
    /\ files = [p \in PathPool |->
                   [exists |-> TRUE, is_file |-> TRUE, stat_error |-> FALSE,
                    mtime |-> 0, readable |-> TRUE, content |-> <<Txt("x")>>]]
    /\ included_files = {}
    /\ _file_cache = <<>>
    /\ wl_cache_hits = 0
    /\ wl_cache_misses = 0
    /\ _content_cache = <<>>
    /\ _last_hash = NoHash
    /\ _incremental_enabled = TRUE
    /\ HAS_MD4C = TRUE
    /\ HAS_MARKDOWN = TRUE
    /\ last = Last0
    /\ ncalls = 0
    /\ CoordInit

\* WikiLinkProcessor.process_wikilink_html(html)
ProcessWikilinkHtml(html) ==
    /\ last' = [Last0 EXCEPT !.op = "process_wikilink_html", !.text = html,
                             !.html = process_wikilink_html_str(html)]
    /\ ncalls' = ncalls + 1
    /\ UNCHANGED <<procVars, envVars, coordVars, coordHist>>

\* process_wikilink_html applied to what it returned
ProcessOwnOutput ==
    /\ ncalls >= 1 /\ ncalls < MaxCalls
    /\ last' = [Last0 EXCEPT !.op = "process_wikilink_html", !.text = last.html,
                             !.html = process_wikilink_html_str(last.html),
                             !.same_as_prev = TRUE]
    /\ ncalls' = ncalls + 1
    /\ UNCHANGED <<procVars, envVars, coordVars, coordHist>>

NextWikiHtml ==
    \/ ncalls = 0 /\ \E html \in HtmlPool : ProcessWikilinkHtml(html)
    \/ ProcessOwnOutput

SpecWikiHtml == InitWikiHtml /\ [][NextWikiHtml]_vars

-----------------------------------------------------------------------------
(* The document cache driven past its limit: documents that differ in text  *)
(* or in a flag, numbered in the order they are first converted.            *)

RECURSIVE RepTxt(_)
RepTxt(n) == IF n = 0 THEN <<>> ELSE <<Txt("k")>> \o RepTxt(n - 1)

\* the n-th document: documents 2m-1 and 2m have the same text and differ in
\* enable_latex
NthDoc(n) == [text |-> RepTxt((n + 1) \div 2), wl |-> TRUE, latex |-> (n % 2 = 0)]

KeyOf(n) == _hash_content(NthDoc(n).text, NthDoc(n).wl, NthDoc(n).latex)

HighestKeyIn(cache) ==
    CHOOSE n \in 0..MaxCacheCalls :
        /\ n = 0 \/ KeyIndex(cache, KeyOf(n)) # 0
        /\ \A m \in (n + 1)..MaxCacheCalls : KeyIndex(cache, KeyOf(m)) = 0

InitDocCache ==
    /\ files = [p \in PathPool |->
                   [exists |-> TRUE, is_file |-> TRUE, stat_error |-> FALSE,
                    mtime |-> 0, readable |-> TRUE, content |-> <<Txt("x")>>]]
    /\ included_files = {}
    /\ _file_cache = <<>>
    /\ wl_cache_hits = 0
    /\ wl_cache_misses = 0
    /\ _content_cache = <<>>
    /\ _last_hash = NoHash
    /\ _incremental_enabled = TRUE
    /\ HAS_MD4C \in BOOLEAN
    /\ HAS_MARKDOWN = TRUE
    /\ last = Last0
    /\ ncalls = 0
    /\ CoordInit

\* MarkdownProcessor.convert on the n-th document, a document converted before
\* or the next new one
ConvertNth(n, force) ==
    /\ ncalls < MaxCacheCalls
    /\ n <= HighestKeyIn(_content_cache) + 1
    /\ \E r \in {convert(ProcState, files, Env, NthDoc(n).text, NthDoc(n).wl,
                         NthDoc(n).latex, force)} :
          /\ SetProc(r.M)
          /\ last' = [Last0 EXCEPT !.op = "convert", !.n = n, !.force = force,
                                   !.ran = r.ran,
                                   !.present = (KeyIndex(_content_cache, KeyOf(n)) # 0)]
    /\ ncalls' = ncalls + 1
    /\ UNCHANGED <<envVars, coordVars, coordHist>>

\* MarkdownProcessor.clear_cache() on a cache that holds something
ClearDocCache ==
    /\ ncalls < MaxCacheCalls
    /\ _content_cache # <<>>
    /\ SetProc(clear_cache(ProcState))
    /\ last' = [Last0 EXCEPT !.op = "clear_cache"]
    /\ ncalls' = ncalls + 1
    /\ UNCHANGED <<envVars, coordVars, coordHist>>

NextDocCache ==
    \/ \E n \in 1..MaxCacheCalls, force \in BOOLEAN : ConvertNth(n, force)
    \/ ClearDocCache

SpecDocCache == InitDocCache /\ [][NextDocCache]_vars

-----------------------------------------------------------------------------
(* The file cache driven past its limit: files named by two digits, read in *)
(* the order of their numbers, the oldest and the newest read again.        *)

Digits == <<"0", "1", "2", "3", "4", "5", "6", "7", "8", "9">>

NthPath(n) == <<Digits[(n \div 10) + 1], Digits[(n % 10) + 1], "md">>

NumberedPaths == {NthPath(n) : n \in 1..MaxFileReads}

DigitValue(d) == CHOOSE i \in 0..9 : Digits[i + 1] = d

PathNumber(path) == 10 * DigitValue(path[1]) + DigitValue(path[2])

HighestPathIn(cache) ==
    LET numbers == {PathNumber(cache[i].path) : i \in 1..Len(cache)} \cup {0}
    IN CHOOSE n \in numbers : \A m \in numbers : m <= n

\* the files read next: the first, the newest one read, the next new one
ReadChoices(cache) ==
    {1, HighestPathIn(cache), HighestPathIn(cache) + 1} \cap 1..MaxFileReads

InitFileCache ==
    /\ files = [p \in NumberedPaths |->
                   [exists |-> TRUE, is_file |-> TRUE, stat_error |-> FALSE,
                    mtime |-> 0, readable |-> TRUE, content |-> <<Txt("x")>>]]
    /\ included_files = {}
    /\ _file_cache = <<>>
    /\ wl_cache_hits = 0
    /\ wl_cache_misses = 0
    /\ _content_cache = <<>>
    /\ _last_hash = NoHash
    /\ _incremental_enabled = TRUE
    /\ HAS_MD4C = TRUE
    /\ HAS_MARKDOWN = TRUE
    /\ last = Last0
    /\ ncalls = 0
    /\ CoordInit

\* WikiLinkProcessor._read_file_cached on the n-th file: the first file, the
\* newest one read, or the next new one
ReadNthFile(n) ==
    /\ ncalls < MaxFileReads
    /\ \E rd \in {_read_file_cached(WikiState, files, NthPath(n))} :
          /\ SetWiki(rd.W)
          /\ last' = [Last0 EXCEPT !.op = "read", !.path = NthPath(n), !.n = n,
                                   !.ok = rd.ok, !.disk_read = rd.disk_read]
    /\ ncalls' = ncalls + 1
    /\ UNCHANGED <<_content_cache, _last_hash, _incremental_enabled, envVars,
                   coordVars, coordHist>>

\* the first file is rewritten and gets a new mtime
TouchFirstFile ==
    /\ files[NthPath(1)].mtime < MaxMtime
    /\ files' = [files EXCEPT ![NthPath(1)].mtime = @ + 1,
                              ![NthPath(1)].content = Append(@, Txt("x"))]
    /\ last' = [Last0 EXCEPT !.op = "write", !.path = NthPath(1)]
    /\ UNCHANGED <<procVars, HAS_MD4C, HAS_MARKDOWN, ncalls, coordVars, coordHist>>

NextFileCache ==
    \/ \E n \in ReadChoices(_file_cache) : ReadNthFile(n)
    \/ TouchFirstFile

SpecFileCache == InitFileCache /\ [][NextFileCache]_vars

-----------------------------------------------------------------------------
(* preview_server.py: the debounce/broadcast coordinator *)

\* _debounce_delay = 0.3 s, counted in tenths of a second
DebounceTicks == 3

\* "from markdown_processor import MarkdownProcessor" succeeded
HAS_PROCESSOR == TRUE

\* the update requests the editor sends: content, flags, scroll position
\* (<<>> for no scroll_percent); filepath is advisory and unused
UpdatePool ==
    { [content |-> InclB, wl |-> TRUE, latex |-> TRUE, scroll |-> <<10>>],
      [content |-> <<Txt("d")>>, wl |-> TRUE, latex |-> FALSE, scroll |-> <<>>],
      [content |-> <<>>, wl |-> FALSE, latex |-> TRUE, scroll |-> <<50>>] }

\* "<p style='color: red;'>Error processing markdown: {e}</p>"
error_paragraph(e) == <<"p_error", <<"Error processing markdown">>, e>>

\* "1 if self.processor._last_hash in self.processor._content_cache else 0",
\* evaluated after convert has returned with processor state M
cache_hit_increment(M) == IF KeyIndex(M.cc, M.lh) # 0 THEN 1 ELSE 0

\* process_markdown returns [M, html, hit, count, cached, raised]: what is added
\* to _cache_hits and to _update_count, whether convert answered from the
\* document cache, and whether the except branch was taken
process_markdown(M, fs, env, content, enable_wikilinks, enable_latex) ==
    IF HAS_PROCESSOR
    THEN LET r == convert(M, fs, env, content, enable_wikilinks, enable_latex, FALSE)
         IN IF r.exc # <<>>
            THEN \* except Exception: the error paragraph is returned
                 [M |-> r.M, html |-> <<error_paragraph(r.exc)>>, hit |-> 0, count |-> 0,
                  cached |-> FALSE, raised |-> TRUE]
            ELSE [M |-> r.M, html |-> r.html,
                  hit |-> cache_hit_increment(r.M), count |-> 1,
                  cached |-> ~r.ran, raised |-> FALSE]
    ELSE IF env.markdown
    THEN [M |-> M, html |-> _convert_with_markdown(content), hit |-> 0, count |-> 1,
          cached |-> FALSE, raised |-> FALSE]
    ELSE [M |-> M, html |-> _convert_simple(content), hit |-> 0, count |-> 1,
          cached |-> FALSE, raised |-> FALSE]

\* get_stats: the counters of the coordinator
get_stats == [updates |-> _update_count, cache_hits |-> srv_cache_hits]

broadcast_messages_one(recipients, html, scroll_percent, n) ==
    {[to |-> c, kind |-> "broadcast", n |-> n, html |-> html,
      scroll |-> scroll_percent] : c \in {d \in recipients : \A x \in recipients : d <= x}}

\* broadcast_update: one send of the same message per subscriber in the set
broadcast_messages(recipients, html, scroll_percent, n) ==
    {[to |-> c, kind |-> "broadcast", n |-> n, html |-> html,
      scroll |-> scroll_percent] : c \in recipients}

\* websocket_handler: the message for a new subscriber
handshake_message(c, html) ==
    [to |-> c, kind |-> "handshake", n |-> 0, html |-> html, scroll |-> <<>>]

\* The loop runs the callbacks handed to it by call_soon_threadsafe oldest first.
NextReadyNewest(q) == Len(q)

NextReady(q) == 1

RemoveAt(q, i) == SubSeq(q, 1, i - 1) \o SubSeq(q, i + 1, Len(q))

\* task.done()
TaskDone(task) == task.state \in {"done", "cancelled"}

\* await asyncio.sleep(...) raises CancelledError in a task that was cancelled
sleep_interrupted_never(task) == FALSE

sleep_interrupted(task) == task.state = "cancel_requested"

\* main: asyncio.run(start_websocket_server(...)) sets server.loop
StartWebsocketServer ==
    /\ ~loop
    /\ loop' = TRUE
    /\ UNCHANGED <<loop_ready, _pending_update, _debounce_task, tasks, _update_lock,
                   blocked, clients, subs, current_html, inflight, _update_count,
                   srv_cache_hits, coordHist, procVars, envVars, histVars>>

\* RequestHandler.do_POST('/update') on the HTTP thread: the update is handed to
\* the loop when there is one, and acknowledged
\* A request body is either an update (a record with content, flags and scroll
\* position) or bytes that the try block of do_POST cannot decode: not JSON
\* (json.loads raises), JSON that is no object (data.get raises), an object
\* whose content has no length (len(content) raises).
MalformedPool == {[raw |-> "not_json"], [raw |-> "not_object"], [raw |-> "content_no_len"]}

decodes(body) == "content" \in DOMAIN body

do_POST_response_ok(body) == [code |-> 200, status |-> "ok"]

\* the response do_POST writes: 200 {'status': 'ok'}, or from its except branch
\* 500 {'status': 'error', 'message': str(e)}
do_POST_response(body) ==
    IF decodes(body)
    THEN [code |-> 200, status |-> "ok"]
    ELSE [code |-> 500, status |-> "error", message |-> <<body.raw>>]

\* a request body together with the response written for it
Answered(body) ==
    [f \in DOMAIN body \cup {"response"} |->
        IF f = "response" THEN do_POST_response(body) ELSE body[f]]

\* (limit bounds the number of requests of a run)
DoPostUpTo(u, limit) ==
    /\ Len(submitted) < limit
    /\ submitted' = Append(submitted, Answered(u))
    /\ loop_ready' = IF decodes(u) /\ loop
                     THEN Append(loop_ready, Len(submitted) + 1) ELSE loop_ready
    /\ UNCHANGED <<loop, _pending_update, _debounce_task, tasks, _update_lock,
                   blocked, clients, subs, current_html, inflight, _update_count,
                   srv_cache_hits, calls, renders, sends, failed,
                   procVars, envVars, histVars>>

DoPost(u) == DoPostUpTo(u, MaxUpdates)

cancel_previous_skipped(ts, prev) == ts

\* "if self._debounce_task and not self._debounce_task.done(): cancel()"
cancel_previous(ts, prev) ==
    IF prev # 0 /\ ~TaskDone(ts[prev])
    THEN [ts EXCEPT ![prev].state = "cancel_requested"]
    ELSE ts

\* queue_update, run by the loop
QueueUpdate ==
    /\ loop /\ ~blocked /\ loop_ready # <<>>
    /\ LET i    == NextReady(loop_ready)
           uid  == loop_ready[i]
           u    == submitted[uid]
           prev == _debounce_task
           in_window == /\ prev # 0
                        /\ tasks[prev].state = "sleeping"
                        /\ tasks[prev].timer > 0
       IN /\ loop_ready' = RemoveAt(loop_ready, i)
          /\ calls' = Append(calls, [uid |-> uid, in_window |-> in_window])
          /\ IF _update_lock # 0
             THEN \* "with self._update_lock": a threading.Lock held by a
                  \* coroutine suspended on this same loop is never released
                  /\ blocked' = TRUE
                  /\ UNCHANGED <<_pending_update, _debounce_task, tasks>>
             ELSE /\ blocked' = blocked
                  /\ _pending_update' = [content |-> u.content, wl |-> u.wl,
                                         latex |-> u.latex, scroll |-> u.scroll,
                                         uid |-> uid]
                  /\ tasks' = Append(cancel_previous(tasks, prev),
                        [state |-> "sleeping", timer |-> DebounceTicks, uid |-> uid])
                  /\ _debounce_task' = Len(tasks) + 1
    /\ UNCHANGED <<loop, _update_lock, clients, subs, current_html, inflight,
                   _update_count, srv_cache_hits, submitted, renders, sends, failed,
                   procVars, envVars, histVars>>

\* time passes: the running sleeps get closer to their end
Tick ==
    /\ \E t \in 1..Len(tasks) : tasks[t].state = "sleeping" /\ tasks[t].timer > 0
    /\ tasks' = [t \in 1..Len(tasks) |->
                    IF tasks[t].state = "sleeping" /\ tasks[t].timer > 0
                    THEN [tasks[t] EXCEPT !.timer = @ - 1] ELSE tasks[t]]
    /\ UNCHANGED <<loop, loop_ready, _pending_update, _debounce_task, _update_lock,
                   blocked, clients, subs, current_html, inflight, _update_count,
                   srv_cache_hits, coordHist, procVars, envVars, histVars>>

\* _debounced_update after the sleep: take the lock, take the pending update,
\* render it, broadcast it (lines 184-192)
RenderPending(t) ==
    IF _update_lock # 0
    THEN /\ blocked' = TRUE
         /\ UNCHANGED <<_pending_update, tasks, _update_lock, current_html, inflight,
                        _update_count, srv_cache_hits, renders, sends, procVars>>
    ELSE IF _pending_update = NoUpdate
    THEN /\ tasks' = [tasks EXCEPT ![t].state = "done"]
         /\ UNCHANGED <<_pending_update, blocked, _update_lock, current_html,
                        inflight, _update_count, srv_cache_hits, renders, sends,
                        procVars>>
    ELSE LET u == _pending_update
         IN \E r \in {process_markdown(ProcState, files, Env, u.content, u.wl, u.latex)} :
            /\ _pending_update' = NoUpdate
            /\ SetProc(r.M)
            /\ _update_count' = _update_count + r.count
            /\ srv_cache_hits' = srv_cache_hits + r.hit
            /\ current_html' = r.html
            /\ renders' = Append(renders,
                  [uid |-> u.uid, content |-> u.content, wl |-> u.wl,
                   latex |-> u.latex, scroll |-> u.scroll, html |-> r.html,
                   clients |-> clients, task |-> t, timer |-> tasks[t].timer,
                   call |-> Len(calls), cached |-> r.cached, raised |-> r.raised])
            /\ sends' = sends \cup
                  broadcast_messages(clients, r.html, u.scroll, Len(renders) + 1)
            /\ blocked' = blocked
            /\ IF clients # {}
               THEN \* suspended in asyncio.gather, inside the with block
                    /\ inflight' = clients
                    /\ _update_lock' = t
                    /\ tasks' = [tasks EXCEPT ![t].state = "sending"]
               ELSE /\ tasks' = [tasks EXCEPT ![t].state = "done"]
                    /\ UNCHANGED <<inflight, _update_lock>>

\* the sleep of task t is over and the loop resumes it
DebounceWake(t) ==
    /\ loop /\ ~blocked
    /\ tasks[t].state = "sleeping" /\ tasks[t].timer = 0
    /\ RenderPending(t)
    /\ UNCHANGED <<loop, loop_ready, _debounce_task, clients, subs, submitted, calls,
                   failed, envVars, histVars>>

\* the loop resumes a task that queue_update cancelled: CancelledError is
\* raised at the sleep and caught (lines 193-196)
DebounceCancelled(t) ==
    /\ loop /\ ~blocked
    /\ tasks[t].state = "cancel_requested"
    /\ IF sleep_interrupted(tasks[t])
       THEN /\ tasks' = [tasks EXCEPT ![t].state = "cancelled"]
            /\ UNCHANGED <<_pending_update, blocked, _update_lock, current_html,
                           inflight, _update_count, srv_cache_hits, renders, sends,
                           procVars>>
       ELSE RenderPending(t)
    /\ UNCHANGED <<loop, loop_ready, _debounce_task, clients, subs, submitted, calls,
                   failed, envVars, histVars>>

\* one send of the gather ends, with or without an exception
SendComplete(c, ok) ==
    /\ loop /\ ~blocked
    /\ c \in inflight
    /\ inflight' = inflight \ {c}
    /\ failed' = IF ok THEN failed
                 ELSE failed \cup {[to |-> c, kind |-> "broadcast", n |-> Len(renders)]}
    /\ UNCHANGED <<loop, loop_ready, _pending_update, _debounce_task, tasks,
                   _update_lock, blocked, clients, subs, current_html, _update_count,
                   srv_cache_hits, submitted, calls, renders, sends,
                   procVars, envVars, histVars>>

\* gather is done: broadcast_update returns, the with block releases the lock
BroadcastReturn(t) ==
    /\ loop /\ ~blocked
    /\ tasks[t].state = "sending" /\ inflight = {}
    /\ tasks' = [tasks EXCEPT ![t].state = "done"]
    /\ _update_lock' = 0
    /\ UNCHANGED <<loop, loop_ready, _pending_update, _debounce_task, blocked,
                   clients, subs, current_html, inflight, _update_count,
                   srv_cache_hits, coordHist, procVars, envVars, histVars>>

\* websocket_handler up to its first await
Connect(c) ==
    /\ loop /\ ~blocked
    /\ subs[c] = "new"
    /\ \A d \in DOMAIN subs : d < c => subs[d] # "new"   \* numbered as they arrive
    /\ clients' = clients \cup {c}
    /\ IF current_html # <<>>
       THEN /\ subs' = [subs EXCEPT ![c] = "handshaking"]
            /\ sends' = sends \cup {handshake_message(c, current_html)}
       ELSE /\ subs' = [subs EXCEPT ![c] = "open"]
            /\ sends' = sends
    /\ UNCHANGED <<loop, loop_ready, _pending_update, _debounce_task, tasks,
                   _update_lock, blocked, current_html, inflight, _update_count,
                   srv_cache_hits, submitted, calls, renders, failed,
                   procVars, envVars, histVars>>

\* the handshake send ends; an exception goes to the handler's finally
HandshakeComplete(c, ok) ==
    /\ loop /\ ~blocked
    /\ subs[c] = "handshaking"
    /\ IF ok
       THEN /\ subs' = [subs EXCEPT ![c] = "open"]
            /\ UNCHANGED <<clients, failed>>
       ELSE /\ subs' = [subs EXCEPT ![c] = "closed"]
            /\ clients' = clients \ {c}
            /\ failed' = failed \cup {[to |-> c, kind |-> "handshake", n |-> 0]}
    /\ UNCHANGED <<loop, loop_ready, _pending_update, _debounce_task, tasks,
                   _update_lock, blocked, current_html, inflight, _update_count,
                   srv_cache_hits, submitted, calls, renders, sends,
                   procVars, envVars, histVars>>

\* wait_closed() returns: the subscriber leaves the set
Disconnect(c) ==
    /\ loop /\ ~blocked
    /\ subs[c] = "open"
    /\ subs' = [subs EXCEPT ![c] = "closed"]
    /\ clients' = clients \ {c}
    /\ UNCHANGED <<loop, loop_ready, _pending_update, _debounce_task, tasks,
                   _update_lock, blocked, current_html, inflight, _update_count,
                   srv_cache_hits, coordHist, procVars, envVars, histVars>>

Init ==
    /\ files = [p \in PathPool |->
                   [exists |-> TRUE, is_file |-> TRUE, stat_error |-> FALSE,
                    mtime |-> 0, readable |-> (p # PathC),
                    content |-> IF p = PathA THEN InclB
                                ELSE IF p = PathB THEN InclA ELSE <<Txt("x")>>]]
    /\ included_files = {}
    /\ _file_cache = <<>>
    /\ wl_cache_hits = 0
    /\ wl_cache_misses = 0
    /\ _content_cache = <<>>
    /\ _last_hash = NoHash
    /\ _incremental_enabled = TRUE
    /\ HAS_MD4C \in BOOLEAN
    /\ HAS_MARKDOWN = TRUE
    /\ last = Last0
    /\ ncalls = 0
    /\ CoordInit

\* what runs on the event loop
LoopStep ==
    \/ QueueUpdate
    \/ \E t \in 1..Len(tasks) : DebounceWake(t)
    \/ \E t \in 1..Len(tasks) : DebounceCancelled(t)
    \/ \E c \in DOMAIN subs, ok \in BOOLEAN : SendComplete(c, ok)
    \/ \E t \in 1..Len(tasks) : BroadcastReturn(t)
    \/ \E c \in DOMAIN subs, ok \in BOOLEAN : HandshakeComplete(c, ok)

Next ==
    \/ StartWebsocketServer
    \/ \E u \in UpdatePool : DoPost(u)
    \/ Tick
    \/ LoopStep
    \/ \E c \in DOMAIN subs : Connect(c)
    \/ \E c \in DOMAIN subs : Disconnect(c)

Spec == Init /\ [][Next]_vars

\* ENABLED <<LoopStep>>_vars, from the guards of the loop's steps (each of
\* them changes the state)
LoopEnabled ==
    /\ loop /\ ~blocked
    /\ \/ loop_ready # <<>>
       \/ inflight # {}
       \/ \E t \in 1..Len(tasks) :
             \/ tasks[t].state = "sleeping" /\ tasks[t].timer = 0
             \/ tasks[t].state \in {"cancel_requested", "sending"}
       \/ \E c \in DOMAIN subs : subs[c] = "handshaking"

\* weak fairness of LoopStep: the loop runs what is ready
LoopFair == []<>(~LoopEnabled) \/ []<><<LoopStep>>_vars

\* The loop runs what is ready, time passes, the server is started.
FairSpec ==
    /\ Spec
    /\ WF_vars(StartWebsocketServer)
    /\ WF_vars(Tick)
    /\ LoopFair

\* The coordinator with several subscribers and few updates.
InitBroadcast ==
    /\ files = [p \in PathPool |->
                   [exists |-> TRUE, is_file |-> TRUE, stat_error |-> FALSE,
                    mtime |-> 0, readable |-> (p # PathC),
                    content |-> IF p = PathA THEN InclB
                                ELSE IF p = PathB THEN InclA ELSE <<Txt("x")>>]]
    /\ included_files = {}
    /\ _file_cache = <<>>
    /\ wl_cache_hits = 0
    /\ wl_cache_misses = 0
    /\ _content_cache = <<>>
    /\ _last_hash = NoHash
    /\ _incremental_enabled = TRUE
    /\ HAS_MD4C = TRUE
    /\ HAS_MARKDOWN = TRUE
    /\ last = Last0
    /\ ncalls = 0
    /\ loop = FALSE
    /\ loop_ready = <<>>
    /\ _pending_update = NoUpdate
    /\ _debounce_task = 0
    /\ tasks = <<>>
    /\ _update_lock = 0
    /\ blocked = FALSE
    /\ clients = {}
    /\ subs = [c \in 1..MaxBroadcastSubs |-> "new"]
    /\ current_html = <<>>
    /\ inflight = {}
    /\ _update_count = 0
    /\ srv_cache_hits = 0
    /\ submitted = <<>>
    /\ calls = <<>>
    /\ renders = <<>>
    /\ sends = {}
    /\ failed = {}

BroadcastPool == {u \in UpdatePool : u.scroll = <<>>}

NextBroadcast ==
    \/ StartWebsocketServer
    \/ \E u \in BroadcastPool : DoPostUpTo(u, MaxBroadcasts)
    \/ Tick
    \/ LoopStep
    \/ \E c \in DOMAIN subs : Connect(c)
    \/ \E c \in DOMAIN subs : Disconnect(c)

SpecBroadcast == InitBroadcast /\ [][NextBroadcast]_vars

\* The coordinator receiving requests of every kind: bodies that cannot be
\* decoded, an update whose processing raises (its inclusion target makes the
\* existence test fail), and updates that render.
RaisingUpdate == [content |-> <<Incl(TL, <<>>)>>, wl |-> TRUE, latex |-> FALSE, scroll |-> <<>>]

RequestPool ==
    MalformedPool \cup {RaisingUpdate} \cup {u \in UpdatePool : u.scroll = <<>>}

InitRequests ==
    /\ files = [p \in PathPool \cup {PathL} |->
                   [exists |-> TRUE, is_file |-> TRUE, stat_error |-> (p = PathL),
                    mtime |-> 0, readable |-> (p # PathC),
                    content |-> IF p = PathA THEN InclB
                                ELSE IF p = PathB THEN InclA ELSE <<Txt("x")>>]]
    /\ included_files = {}
    /\ _file_cache = <<>>
    /\ wl_cache_hits = 0
    /\ wl_cache_misses = 0
    /\ _content_cache = <<>>
    /\ _last_hash = NoHash
    /\ _incremental_enabled = TRUE
    /\ HAS_MD4C = TRUE
    /\ HAS_MARKDOWN = TRUE
    /\ last = Last0
    /\ ncalls = 0
    /\ CoordInit

NextRequests ==
    \/ StartWebsocketServer
    \/ \E u \in RequestPool : DoPostUpTo(u, MaxRequests)
    \/ Tick
    \/ LoopStep
    \/ \E c \in DOMAIN subs : Connect(c)
    \/ \E c \in DOMAIN subs : Disconnect(c)

SpecRequests == InitRequests /\ [][NextRequests]_vars

-----------------------------------------------------------------------------
(* Claims about the processor, checked under SpecProc. *)

IsCall(op) == last.op = op

\* C5 (as claimed): a convert without force whose key is in the document cache
\* returns the stored HTML and runs no resolver, dispatcher or post-processor,
\* whatever was rendered since the entry was stored.
C5_HitOnAnyPresentKey ==
    (IsCall("convert") /\ ~last.force /\ last.present) =>
        (~last.ran /\ last.html = last.stored)

\* C6: the second of two consecutive converts of the same (text, flags), no
\* file changed in between, returns the same HTML and leaves the guard set, the
\* file cache, its hit/miss counters, the document cache and _last_hash as
\* they were.
C6_Idempotent ==
    [][ ( /\ last.op = "convert" /\ last'.op = "convert" /\ ncalls' = ncalls + 1
          /\ last'.text = last.text /\ last'.wl = last.wl /\ last'.latex = last.latex
          /\ ~last'.force )
        => ( /\ last'.html = last.html
             /\ ~last'.ran /\ last'.reads = 0
             /\ UNCHANGED <<included_files, _file_cache, wl_cache_hits,
                            wl_cache_misses, _content_cache, _last_hash>> ) ]_vars

C6_Witness ==
    /\ IsCall("convert") /\ last.same_as_prev /\ ~last.force /\ last.wl
    /\ CountKind(last.text, "incl") > 0
    /\ wl_cache_misses > 0

\* C7 (as claimed): once a file a document includes has changed on disk, content
\* and mtime, the next convert of that document without force returns the HTML
\* of the files as they are now.
C7_RenderSeesChangedFile ==
    (IsCall("convert") /\ ~last.force /\ last.wl /\ last.coherent
        /\ last.changed # {})
    => last.html = FreshHtml(files, Env, last.text, last.wl, last.latex)

\* C7 where it holds: the same, for a convert that is not answered from the
\* document cache.
C7_RenderSeesChangedFileOnMiss ==
    (IsCall("convert") /\ last.ran /\ last.wl /\ last.coherent)
    => last.html = FreshHtml(files, Env, last.text, last.wl, last.latex)

\* C8: _read_file_cached(path) returns the cached text and counts a hit, without
\* reading the file, exactly when the cache has an entry for the path with the
\* file's current mtime; otherwise it counts a miss and reads the file, and the
\* content read is stored with the current mtime and returned (a read that
\* raises stores nothing).
C8_MtimeCacheRead ==
    [][ (last'.op = "read" /\ ncalls' = ncalls + 1) =>
        LET path == last'.path
            i    == CacheIndex(_file_cache, path)
            j    == CacheIndex(_file_cache', path)
        IN IF i # 0 /\ _file_cache[i].mtime = files[path].mtime
           THEN /\ last'.ok /\ last'.ret = _file_cache[i].content
                /\ ~last'.disk_read
                /\ wl_cache_hits' = wl_cache_hits + 1
                /\ wl_cache_misses' = wl_cache_misses
                /\ _file_cache' = _file_cache
           ELSE /\ wl_cache_misses' = wl_cache_misses + 1
                /\ wl_cache_hits' = wl_cache_hits
                /\ last'.disk_read
                /\ IF files[path].readable
                   THEN /\ last'.ok /\ last'.ret = files[path].content
                        /\ j # 0
                        /\ _file_cache'[j].mtime = files[path].mtime
                        /\ _file_cache'[j].content = files[path].content
                   ELSE ~last'.ok /\ _file_cache' = _file_cache ]_vars

\* a hit on an entry whose text differs from the file's, and the counters moved
C8_Witness ==
    /\ IsCall("read") /\ last.ok /\ ~last.disk_read
    /\ last.ret # files[last.path].content
    /\ wl_cache_hits = 1 /\ wl_cache_misses = 1

\* C9: whatever the files include, each other or themselves, a convert ends
\* having read at most one file per inclusion marker of the top-level text.
C9_ReadsBoundedByMarkers ==
    IsCall("convert") => last.reads <= CountKind(last.text, "incl")

\* the files include each other, or a file includes itself, and a render read one
C9_Witness ==
    /\ IsCall("convert") /\ last.ran /\ last.reads = CountKind(last.text, "incl")
    /\ last.reads > 0
    /\ \/ HasTok(files[PathA].content, Incl(TB, <<>>))
          /\ HasTok(files[PathB].content, Incl(TA, <<>>))
       \/ HasTok(files[PathA].content, Incl(TA, <<>>))
    /\ PathA \in included_files

\* A includes B and B includes A, and A's text was rendered
CycleRendered ==
    /\ IsCall("convert") /\ last.ran /\ last.wl
    /\ files[PathA].content = InclB /\ files[PathB].content = InclA
    /\ last.text = files[PathA].content
    /\ last.coherent

IsCircularMarker(tok) ==
    tok[1] = "inclusion_error" /\ tok[2] = <<"Circular inclusion detected">>

\* C10 (as claimed): the output has a "Circular inclusion detected" marker for
\* the reference to A inside B's content.
C10_CircularMarkerEmitted ==
    CycleRendered =>
        HasTok(last.html,
               format_inclusion_error(TA, <<"Circular inclusion detected">>))

\* C10 (amended): B's content is inserted once as it is; the reference to A
\* inside it is not expanded and gets no error marker, it comes out as a
\* wiki-link to "!A"; only B was read.
C10_InnerReferenceLeftAsLink ==
    CycleRendered =>
        /\ last.html = << <<"div_included", TB, <<>>>>,
                          <<"a", <<"!">> \o TA, <<"!">> \o TA>>,
                          <<"div_end", <<>>, <<>>>> >>
        /\ \A i \in 1..Len(last.html) : ~IsCircularMarker(last.html[i])
        /\ last.reads = 1
        /\ included_files = {PathB}

C10_Witness == CycleRendered /\ Len(last.html) = 3

\* no two inclusion markers of the text stand for the same path
DistinctMarkerPaths(fs, text) ==
    \A i, j \in 1..Len(text) :
        (i < j /\ text[i][1] = "incl" /\ text[j][1] = "incl")
            => resolve_file_path(fs, text[i][2]) # resolve_file_path(fs, text[j][2])

\* C13: after a convert that ran the pipeline, whatever the guard set held
\* before, the guard set holds only paths this document includes (none when
\* wiki-links are off), and the HTML has no "Circular inclusion detected"
\* marker unless the document itself names a path twice.
C13_GuardReset ==
    (IsCall("convert") /\ last.ran) =>
        /\ included_files \subseteq IncludedPaths(files, last.text)
        /\ ~last.wl => included_files = {}
        /\ DistinctMarkerPaths(files, last.text) =>
              \A i \in 1..Len(last.html) : ~IsCircularMarker(last.html[i])

\* a path guarded by the render before is included again, and expanded
C13_Witness ==
    /\ IsCall("convert") /\ last.ran /\ last.wl
    /\ last.inc0 \cap included_files # {}
    /\ last.inc0 \ included_files # {}
    /\ \E i \in 1..Len(last.html) : last.html[i][1] = "div_included"

-----------------------------------------------------------------------------
(* Claims about the document cache, checked under SpecDocCache. *)

\* C14: the document cache never holds more than 10 entries, no key twice, and
\* it holds the document converted last; after 11 calls that converted 11 different documents on an empty cache it
\* holds exactly the 10 converted last, in that order, and not the first.
C14_DocCacheBound ==
    /\ Len(_content_cache) <= 10
    /\ \A i, j \in 1..Len(_content_cache) :
          i # j => _content_cache[i].key # _content_cache[j].key
    /\ IsCall("convert") => KeyIndex(_content_cache, KeyOf(last.n)) # 0
    /\ (ncalls = 11 /\ IsCall("convert") /\ last.n = 11) =>
          /\ Len(_content_cache) = 10
          /\ \A i \in 1..10 : _content_cache[i].key = KeyOf(i + 1)
          /\ KeyIndex(_content_cache, KeyOf(1)) = 0

\* the eleventh different document has just been converted
C14_Witness ==
    /\ ncalls = 11 /\ IsCall("convert") /\ last.n = 11 /\ last.ran
    /\ Len(_content_cache) = 10

-----------------------------------------------------------------------------
(* Claims about the file cache, checked under SpecFileCache. *)

CachedPaths(cache) == [i \in 1..Len(cache) |-> cache[i].path]

\* C15: the file cache never holds more than 50 entries; a read either leaves
\* the cached paths and their order as they were, or appends its path, and on
\* a full cache the entry dropped for it is the one inserted earliest; the
\* entry just stored is never dropped.
C15_FileCacheBound ==
    [][ LET old == CachedPaths(_file_cache)
            new == CachedPaths(_file_cache')
        IN /\ Len(new) <= 50
           /\ \/ new = old
              \/ /\ last'.op = "read" /\ last'.disk_read
                 /\ \A i \in 1..Len(old) : old[i] # last'.path
                 /\ IF Len(old) < 50 THEN new = Append(old, last'.path)
                    ELSE new = Append(Tail(old), last'.path)
           /\ (last'.op = "read" /\ last'.ok) =>
                 CacheIndex(_file_cache', last'.path) # 0 ]_vars

\* the 51st file was read into a full cache and the first file's entry is gone
C15_Witness ==
    /\ IsCall("read") /\ last.n = 51 /\ last.disk_read
    /\ Len(_file_cache) = 50
    /\ CacheIndex(_file_cache, NthPath(1)) = 0
    /\ wl_cache_hits > 0

-----------------------------------------------------------------------------
(* Claims about the resolver, checked under SpecIncl. *)

\* the path a marker stands for, NoPath when its target cannot be resolved
MarkerPath(fs, target) ==
    IF resolve_file_path_raises(fs, target) THEN NoPath
    ELSE resolve_file_path(fs, target)

\* what process_inclusions is to return: every marker replaced on its own, by
\* an error block or by the content of its file
RECURSIVE ExpectedInclusions(_, _, _)
ExpectedInclusions(fs, guard, text) ==
    IF text = <<>> THEN <<>>
    ELSE LET tok  == Head(text)
             path == MarkerPath(fs, tok[2])
         IN IF tok[1] # "incl"
            THEN <<tok>> \o ExpectedInclusions(fs, guard, Tail(text))
            ELSE IF path = NoPath
            THEN << <<"inclusion_error", <<"File not found">>, tok[2]>> >>
                 \o ExpectedInclusions(fs, guard, Tail(text))
            ELSE IF path \in guard
            THEN << <<"inclusion_error", <<"Circular inclusion detected">>, tok[2]>> >>
                 \o ExpectedInclusions(fs, guard, Tail(text))
            ELSE IF ~fs[path].readable
            THEN << <<"inclusion_error", <<"Cannot read file", "PermissionError">>,
                      tok[2]>> >>
                 \o ExpectedInclusions(fs, guard, Tail(text))
            ELSE << <<"div_included", IF tok[3] # <<>> THEN tok[3] ELSE tok[2], <<>>>> >>
                 \o fs[path].content
                 \o << <<"div_end", <<>>, <<>>>> >>
                 \o ExpectedInclusions(fs, guard \cup {path}, Tail(text))

\* C11 (as claimed): process_inclusions raises nothing, and its result is the
\* text with every marker that cannot be resolved or read replaced by its own
\* error block and every other marker still replaced as if the failing ones
\* were not there.
C11_InclusionErrorsLocal ==
    IsCall("process_inclusions") =>
        /\ last.exc = <<>>
        /\ last.ret = ExpectedInclusions(files, last.inc0, last.text)

\* The same for the texts none of whose targets makes the existence test raise.
InclusionErrorsLocalUnlessResolveRaises ==
    (IsCall("process_inclusions")
        /\ \A i \in 1..Len(last.text) :
              last.text[i][1] = "incl" => ~resolve_file_path_raises(files, last.text[i][2]))
    => /\ last.exc = <<>>
       /\ last.ret = ExpectedInclusions(files, last.inc0, last.text)

RegularFile(path) ==
    path \in DOMAIN files /\ files[path].exists /\ files[path].is_file

FirstRegularFile(c1, c2, c3) ==
    IF RegularFile(c1) THEN c1
    ELSE IF RegularFile(c2) THEN c2
    ELSE IF RegularFile(c3) THEN c3
    ELSE NoPath

\* C12 (as claimed): resolve_file_path(target) returns the first of target,
\* target.md, target.markdown that is an existing regular file, and no path
\* when none is.
C12_ResolveExactNameFirst ==
    (IsCall("resolve") /\ last.exc = <<>>) =>
        last.path = FirstRegularFile(last.target, last.target \o <<"md">>,
                                     last.target \o <<"markdown">>)

\* C12 (amended): resolve_file_path(target) returns the first of target.md,
\* target.markdown, target that is an existing regular file, and no path when
\* none is; it raises only when testing a candidate before the first regular
\* file fails.
C12_ResolveMdFirst ==
    IsCall("resolve") =>
        LET c1 == last.target \o <<"md">>
            c2 == last.target \o <<"markdown">>
            c3 == last.target
            fails(c) == c \in DOMAIN files /\ files[c].stat_error
        IN IF last.exc = <<>>
           THEN last.path = FirstRegularFile(c1, c2, c3)
           ELSE \/ fails(c1)
                \/ ~RegularFile(c1) /\ fails(c2)
                \/ ~RegularFile(c1) /\ ~RegularFile(c2) /\ fails(c3)

\* target and target.md are both regular files, and target.md is returned
C12_Witness ==
    /\ IsCall("resolve") /\ last.target = TA
    /\ RegularFile(TA) /\ RegularFile(PathA)
    /\ last.path = PathA

-----------------------------------------------------------------------------
(* Claims about the coordinator, checked under Spec and FairSpec. *)

\* nothing is left to run, or nothing can run any more
AtRest ==
    \/ blocked
    \/ /\ loop_ready = <<>>
       /\ inflight = {}
       /\ \A t \in 1..Len(tasks) : TaskDone(tasks[t])

\* first call of the burst that ends with the last call: every later call
\* arrived inside the quiet window of the one before it
BurstStart ==
    CHOOSE s \in 1..Len(calls) :
        /\ ~calls[s].in_window
        /\ \A k \in (s + 1)..Len(calls) : calls[k].in_window

BurstUids == {calls[k].uid : k \in BurstStart..Len(calls)}

BurstRenders == {n \in 1..Len(renders) : renders[n].uid \in BurstUids}

RenderUses(n, uid) ==
    /\ renders[n].uid = uid
    /\ renders[n].content = submitted[uid].content
    /\ renders[n].wl = submitted[uid].wl
    /\ renders[n].latex = submitted[uid].latex

BroadcastsOf(n, c) ==
    {m \in sends : m.kind = "broadcast" /\ m.n = n /\ m.to = c}

SentOnce(n) ==
    \A c \in renders[n].clients :
        /\ Cardinality(BroadcastsOf(n, c)) = 1
        /\ \A m \in BroadcastsOf(n, c) :
              m.html = renders[n].html /\ m.scroll = submitted[renders[n].uid].scroll

CoalescedBurst ==
    /\ Cardinality(BurstRenders) = 1
    /\ \A n \in BurstRenders : RenderUses(n, calls[Len(calls)].uid) /\ SentOnce(n)

\* C1: once a burst of queue_update calls, each inside the quiet window of the
\* one before, is over and nothing is left to run, exactly one render was made
\* for the burst, with the content and flags of its last call, and every
\* subscriber connected at the render was sent exactly one broadcast with the
\* rendered HTML and that call's scroll position.
C1_BurstRenderedOnce ==
    (calls # <<>> /\ AtRest) => CoalescedBurst

\* The same statement for the runs in which the loop thread is not stuck on
\* _update_lock.
BurstRenderedOnceUnlessBlocked ==
    (calls # <<>> /\ AtRest /\ ~blocked) => CoalescedBurst

Superseded(k) == Len(calls) > k

RenderedAndBroadcast(k) ==
    \E n \in 1..Len(renders) :
        /\ k <= Len(calls)
        /\ RenderUses(n, calls[k].uid)
        /\ SentOnce(n)
        /\ current_html = renders[n].html \/ Len(renders) > n

\* C2: under fair scheduling of the loop, every payload passed to queue_update
\* is eventually superseded by a later queue_update, or rendered and broadcast,
\* whatever the coordinator was doing when it arrived.
C2_LastUpdateRendered ==
    \A k \in 1..MaxUpdates :
        (Len(calls) >= k) ~> (Superseded(k) \/ RenderedAndBroadcast(k))

\* The same statement for the runs in which the loop thread is not stuck on
\* _update_lock.
LastUpdateRenderedUnlessBlocked ==
    \A k \in 1..MaxUpdates :
        (Len(calls) >= k) ~> (Superseded(k) \/ RenderedAndBroadcast(k) \/ blocked)

\* a payload whose quiet window was cut short by the next call is not rendered
SupersededNeverRendered ==
    \A k \in 1..(Len(calls) - 1) :
        calls[k + 1].in_window =>
            \A n \in 1..Len(renders) : renders[n].uid # calls[k].uid

\* a step that renders: the rendering task slept its whole window, it is the
\* task of the latest queue_update, and it renders that call's payload
RenderAfterFullWindow ==
    renders' # renders =>
        LET r == renders'[Len(renders')]
        IN /\ Len(renders') = Len(renders) + 1
           /\ r.timer = 0
           /\ r.task = _debounce_task
           /\ tasks[r.task].state = "sleeping"
           /\ r.uid = tasks[r.task].uid
           /\ r.uid = calls[Len(calls)].uid
           /\ r.content = submitted[r.uid].content
           /\ r.wl = submitted[r.uid].wl
           /\ r.latex = submitted[r.uid].latex

\* a step that resumes a cancelled task: it ends cancelled, nothing else moves
CancelledTimerNoOp ==
    \A t \in 1..Len(tasks) :
        (tasks[t].state = "cancel_requested" /\ tasks'[t] # tasks[t]) =>
            /\ tasks'[t].state = "cancelled"
            /\ UNCHANGED <<_pending_update, _debounce_task, _update_lock, blocked,
                           current_html, inflight, _update_count, srv_cache_hits,
                           renders, sends, failed, procVars>>

\* C3: a payload is rendered only by the task of its own queue_update, after
\* that task's whole quiet window and with no later queue_update; a payload
\* superseded inside its window is never rendered; a cancelled timer renders
\* nothing, broadcasts nothing, leaves _pending_update alone and fails nothing.
C3_RenderOnlyAfterQuietWindow ==
    [][RenderAfterFullWindow /\ CancelledTimerNoOp /\ SupersededNeverRendered']_vars

C3_Witness ==
    /\ Len(calls) = 2 /\ calls[2].in_window
    /\ tasks[1].state = "cancelled"
    /\ Len(renders) = 1 /\ renders[1].uid = calls[2].uid

\* C4: the rendered payloads are payloads that were submitted, in the order of
\* their submission: the renders' positions in the submitted sequence increase.
C4_RenderOrder ==
    /\ \A n \in 1..Len(renders) :
          renders[n].uid \in 1..Len(submitted) /\ RenderUses(n, renders[n].uid)
    /\ \A n, m \in 1..Len(renders) : n < m => renders[n].uid < renders[m].uid

C4_Witness ==
    /\ Len(renders) = 2
    /\ renders[1].uid = 1 /\ renders[2].uid = 2
    /\ submitted[1] # submitted[2]

\* the messages a step sends to subscriber c
SentTo(c) == {m \in sends' \ sends : m.to = c}

\* C17: a subscriber that connects after a render has been broadcast is sent
\* exactly one handshake message with the HTML of the most recent broadcast and
\* no scroll position, whatever that HTML is; one that connects before any
\* render is sent nothing.
C17_HandshakeOnConnect ==
    [][ \A c \in DOMAIN subs :
           (subs[c] = "new" /\ subs'[c] # "new") =>
               IF Len(renders) > 0
               THEN SentTo(c) = {handshake_message(c, renders[Len(renders)].html)}
               ELSE SentTo(c) = {}
      ]_vars

\* what the handler does: the handshake is sent when the HTML of the most
\* recent broadcast is not the empty string
HandshakeUnlessEmpty ==
    [][ \A c \in DOMAIN subs :
           (subs[c] = "new" /\ subs'[c] # "new") =>
               /\ current_html = (IF Len(renders) > 0
                                  THEN renders[Len(renders)].html ELSE <<>>)
               /\ SentTo(c) = IF current_html # <<>>
                              THEN {handshake_message(c, current_html)} ELSE {}
               /\ c \in clients'
      ]_vars

\* request uid is waiting on the loop as a queue_update call
Enqueued(q, uid) == \E i \in 1..Len(q) : q[i] = uid

\* C18: a request that is answered with status ok has been handed to the event
\* loop as a queue_update call when it is answered, whether or not the
\* push-channel server has started; and the step of the handler thread writes
\* none of _pending_update, _debounce_task, the subscriber set and current_html.
C18_HandOff ==
    [][ (submitted' # submitted) =>
           LET uid == Len(submitted')
           IN /\ (submitted'[uid].response.status = "ok") => Enqueued(loop_ready', uid)
              /\ UNCHANGED <<_pending_update, _debounce_task, clients, current_html>>
      ]_vars

\* what the handler does: the hand-off happens once start_websocket_server has
\* set the loop; before that the request is answered and goes nowhere
HandOffOnceLoopIsSet ==
    [][ (submitted' # submitted) =>
           LET uid == Len(submitted')
           IN /\ submitted'[uid].response.status = "ok"
              /\ loop => loop_ready' = Append(loop_ready, uid)
              /\ ~loop => loop_ready' = loop_ready
              /\ UNCHANGED <<_pending_update, _debounce_task, clients, current_html,
                             tasks, _update_lock>>
      ]_vars

-----------------------------------------------------------------------------
(* Further claims about the resolver, checked under SpecIncl and SpecContain. *)

\* the paths the inclusion markers of the text itself stand for
TopLevelPaths(fs, text) ==
    {MarkerPath(fs, text[i][2]) : i \in {j \in 1..Len(text) : text[j][1] = "incl"}}
        \ {NoPath}

\* the paths that have an entry in the file cache
PathsIn(cache) == {cache[i].path : i \in 1..Len(cache)}

\* C23: process_inclusions expands the markers of the text it is given and
\* nothing else: the files it reads and the paths it adds to the guard set are
\* paths of top-level markers, it reads at most once per top-level marker, and
\* a marker inside the content of an included file is in the result as it was
\* written, with one included block per path added to the guard set.
C23_OneLevelInclusion ==
    [][ (last'.op = "process_inclusions" /\ ncalls' = ncalls + 1) =>
           LET text  == last'.text
               top   == TopLevelPaths(files, text)
               added == included_files' \ included_files
           IN /\ PathsIn(_file_cache') \ PathsIn(_file_cache) \subseteq top
              /\ last'.reads <= Cardinality({j \in 1..Len(text) : text[j][1] = "incl"})
              /\ added \subseteq top
              /\ Cardinality({i \in 1..Len(last'.ret) : last'.ret[i][1] = "div_included"})
                    = Cardinality(added)
              /\ \A p \in added : \A k \in 1..Len(files[p].content) :
                    files[p].content[k][1] = "incl" =>
                        \E i \in 1..Len(last'.ret) : last'.ret[i] = files[p].content[k]
      ]_vars

\* B.md, whose content is an inclusion of A, was included while A.md exists:
\* the marker of A is in the result unexpanded and A.md is not in the guard set
C23_Witness ==
    /\ IsCall("process_inclusions")
    /\ last.text = <<Incl(TD, <<>>), Incl(TB, <<>>)>>
    /\ RegularFile(PathA)
    /\ PathB \in included_files /\ PathA \notin included_files
    /\ \E i \in 1..Len(last.ret) : last.ret[i] = Incl(TA, <<>>)
    /\ CacheIndex(_file_cache, PathA) = 0

\* the places of the markers of the text that stand for the path
MarkersOf(fs, text, path) ==
    {j \in 1..Len(text) : text[j][1] = "incl" /\ MarkerPath(fs, text[j][2]) = path}

FirstMarker(fs, text, path) ==
    CHOOSE j \in MarkersOf(fs, text, path) :
        \A k \in MarkersOf(fs, text, path) : j <= k

\* the number of places of the result that hold the token
CountOf(ret, tok) == Cardinality({i \in 1..Len(ret) : ret[i] = tok})

\* the included block of the marker is in the result, content and all
HasBlock(ret, tok, content) ==
    \E i \in 1..Len(ret) :
        /\ ret[i] = <<"div_included", IF tok[3] # <<>> THEN tok[3] ELSE tok[2], <<>>>>
        /\ i + Len(content) + 1 <= Len(ret)
        /\ SubSeq(ret, i + 1, i + Len(content)) = content
        /\ ret[i + Len(content) + 1] = <<"div_end", <<>>, <<>>>>

\* the path has two or more markers in the text, was not guarded when the
\* call began, and its file can be read
RepeatedAndRead(text, path) ==
    /\ Cardinality(MarkersOf(files, text, path)) >= 2
    /\ path \notin last.inc0
    /\ files[path].readable

\* the first marker became the block of the file, every later one a
\* "Circular inclusion detected" error marker
FirstIncludedLaterCircular(text, path) ==
    LET first == FirstMarker(files, text, path)
        later == MarkersOf(files, text, path) \ {first}
    IN /\ HasBlock(last.ret, text[first], files[path].content)
       /\ CountOf(last.ret, <<"div_end", <<>>, <<>>>>)
             = Cardinality(included_files \ last.inc0)
       /\ path \in included_files
       /\ \A j \in later :
             CountOf(last.ret, format_inclusion_error(text[j][2],
                                   <<"Circular inclusion detected">>))
                >= Cardinality({k \in later : text[k][2] = text[j][2]})

\* a path whose read failed is not in the guard set unless it was there before
FailedReadsUnguarded(text) ==
    \A j \in 1..Len(text) :
        (text[j][1] = "incl" /\ MarkerPath(files, text[j][2]) # NoPath
            /\ ~files[MarkerPath(files, text[j][2])].readable)
        => MarkerPath(files, text[j][2]) \notin included_files \ last.inc0

\* C26: when two or more markers of the text given to process_inclusions
\* stand for the same path and the first read succeeds, the first marker is
\* replaced by the content of the file and every later one by a "Circular
\* inclusion detected" error marker, and no exception is raised; a path whose
\* read failed is not added to the guard set.
C26_RepeatedInclusion ==
    IsCall("process_inclusions") =>
        /\ \A path \in TopLevelPaths(files, last.text) :
              RepeatedAndRead(last.text, path) =>
                  /\ last.exc = <<>>
                  /\ FirstIncludedLaterCircular(last.text, path)
        /\ FailedReadsUnguarded(last.text)

\* The same for the texts none of whose targets makes the existence test raise.
RepeatedInclusionUnlessResolveRaises ==
    (IsCall("process_inclusions")
        /\ \A i \in 1..Len(last.text) :
              last.text[i][1] = "incl" => ~resolve_file_path_raises(files, last.text[i][2]))
    => /\ \A path \in TopLevelPaths(files, last.text) :
             RepeatedAndRead(last.text, path) =>
                 /\ last.exc = <<>>
                 /\ FirstIncludedLaterCircular(last.text, path)
       /\ FailedReadsUnguarded(last.text)

\* A.md was included once and its second marker became the error marker
RepeatedInclusionHappens ==
    /\ IsCall("process_inclusions")
    /\ last.text = <<Incl(TA, <<>>), Incl(TB, <<>>), Incl(TA, <<>>)>>
    /\ RepeatedAndRead(last.text, PathA)
    /\ CountOf(last.ret, format_inclusion_error(TA, <<"Circular inclusion detected">>)) = 1
    /\ PathC \notin included_files

\* how deep below base_path the walk along the segments ends, starting at
\* depth d; -1 once it has left base_path
RECURSIVE DepthAfter(_, _)
DepthAfter(path, d) ==
    IF d < 0 \/ path = <<>> THEN d
    ELSE IF Head(path) = "/" THEN -1
    ELSE IF Head(path) = ".." THEN DepthAfter(Tail(path), d - 1)
    ELSE DepthAfter(Tail(path), d + 1)

\* the file named by path lies under base_path
UnderBase(path) == DepthAfter(path, 0) > 0

\* the target has no parent-directory segment and is not absolute
PlainTarget(target) == \A i \in 1..Len(target) : target[i] \notin {"..", "/"}

\* C24: whatever the target is, with parent-directory segments or absolute, a
\* path that resolve_file_path returns lies under the base directory, and so
\* does every path that is read or guarded.
C24_BaseContainment ==
    /\ (IsCall("resolve") /\ last.path # NoPath) => UnderBase(last.path)
    /\ \A p \in PathsIn(_file_cache) : UnderBase(p)
    /\ \A p \in included_files : UnderBase(p)

\* what holds: targets made of plain name segments resolve under base_path
ContainmentOfPlainTargets ==
    /\ (IsCall("resolve") /\ PlainTarget(last.target) /\ last.path # NoPath)
          => UnderBase(last.path)
    /\ (IsCall("process_inclusions")
          /\ \A i \in 1..Len(last.text) :
                last.text[i][1] = "incl" => PlainTarget(last.text[i][2]))
          => \A p \in included_files \ last.inc0 : UnderBase(p)

-----------------------------------------------------------------------------
(* Further claims about the processor, checked under SpecProc. *)

\* C22: clear_cache leaves the document cache empty, _last_hash unset and the
\* guard set empty, and does not touch the file-content cache or its hit and
\* miss counters; the convert that follows it runs the full pipeline whatever
\* its text and flags are.
C22_ClearCacheFrame ==
    [][ /\ (last'.op = "clear_cache" /\ ncalls' = ncalls + 1) =>
              /\ _content_cache' = <<>>
              /\ _last_hash' = NoHash
              /\ included_files' = {}
              /\ UNCHANGED <<_file_cache, wl_cache_hits, wl_cache_misses>>
        /\ (last.op = "clear_cache" /\ last'.op = "convert") => last'.ran
      ]_vars

\* clear_cache has just run on a processor that had rendered a document with an
\* inclusion: the document cache is empty and the file cache still holds the
\* file that was read
C22_Witness ==
    /\ IsCall("clear_cache")
    /\ ncalls = 2
    /\ _content_cache = <<>>
    /\ _file_cache # <<>>
    /\ wl_cache_misses > 0

-----------------------------------------------------------------------------
(* Claims about the conversion backends, checked under SpecBackend. *)

\* C21: markdown_to_html uses md4c when it is installed, else the markdown
\* library, else the built-in converter; when md4c is selected and its parse
\* raises, the result is the built-in converter's output for the same text and
\* the markdown library is not called (no exception leaves markdown_to_html:
\* every call ends with a result).
C21_BackendFallback ==
    IsCall("markdown_to_html") =>
        /\ HAS_MD4C /\ ~md4c_parse_raises(last.text) =>
              /\ last.html = Md4cTokens(last.text, last.wl, last.latex)
              /\ last.backends = <<"md4c">>
        /\ HAS_MD4C /\ md4c_parse_raises(last.text) =>
              /\ last.html = _convert_simple(last.text)
              /\ \A i \in 1..Len(last.backends) : last.backends[i] # "markdown"
              /\ last.backends[Len(last.backends)] = "simple"
        /\ ~HAS_MD4C /\ HAS_MARKDOWN =>
              /\ last.html = _convert_with_markdown(last.text)
              /\ last.backends = <<"markdown">>
        /\ ~HAS_MD4C /\ ~HAS_MARKDOWN =>
              /\ last.html = _convert_simple(last.text)
              /\ last.backends = <<"simple">>

\* md4c and the markdown library are both installed, md4c's parse raised on a
\* text with a table, and the table came out as the built-in converter leaves
\* it, not as the markdown library renders it
C21_Witness ==
    /\ IsCall("markdown_to_html")
    /\ HAS_MD4C /\ HAS_MARKDOWN
    /\ last.text = <<Unparsable, Table>>
    /\ last.html = _convert_simple(last.text)
    /\ last.html # _convert_with_markdown(last.text)

-----------------------------------------------------------------------------
(* Claims about broadcasts to several subscribers, checked under SpecBroadcast. *)

\* the sends a step adds
NewSends == sends' \ sends

\* the failures of broadcast sends a step records
NewBroadcastFailures == {m \in failed' \ failed : m.kind = "broadcast"}

\* C16: a broadcast attempts one send of the same message to every subscriber
\* that is in the set when it starts and to nobody else; a send that fails
\* takes only its own subscriber out of the pending sends and leaves the other
\* sends, the task and the subscriber set alone; the broadcast then returns
\* normally (the task ends, the lock is released) once every send has ended;
\* and no step of the broadcast changes the subscriber set.
C16_BroadcastIsolation ==
    [][ /\ (renders' # renders) =>
              LET n == Len(renders')
              IN /\ {m.to : m \in NewSends} = clients
                 /\ Cardinality(NewSends) = Cardinality(clients)
                 /\ \A m \in NewSends :
                       /\ m.kind = "broadcast" /\ m.n = n
                       /\ m.html = renders'[n].html
                       /\ m.scroll = renders'[n].scroll
                 /\ inflight' = clients
                 /\ clients' = clients
        /\ (NewBroadcastFailures # {}) =>
              /\ inflight' = inflight \ {m.to : m \in NewBroadcastFailures}
              /\ Cardinality(NewBroadcastFailures) = 1
              /\ sends' = sends
              /\ tasks' = tasks
              /\ blocked' = blocked
              /\ _update_lock' = _update_lock
              /\ clients' = clients
        /\ \A t \in 1..Len(tasks) :
              (tasks[t].state = "sending" /\ tasks'[t].state # "sending") =>
                  /\ tasks'[t].state = "done"
                  /\ inflight = {}
                  /\ _update_lock' = 0
                  /\ clients' = clients
      ]_vars

\* a broadcast to two subscribers has returned; the send to one of them failed
\* and the send to the other did not
C16_Witness ==
    \E n \in 1..Len(renders) :
        /\ renders[n].clients = {1, 2}
        /\ [to |-> 1, kind |-> "broadcast", n |-> n] \in failed
        /\ [to |-> 2, kind |-> "broadcast", n |-> n] \notin failed
        /\ Cardinality(BroadcastsOf(n, 2)) = 1
        /\ tasks[renders[n].task].state = "done"
        /\ _update_lock = 0

-----------------------------------------------------------------------------
(* Claims about requests of every kind, checked under SpecRequests. *)

\* the HTML is the error paragraph of process_markdown
IsErrorParagraph(html) == Len(html) = 1 /\ html[1][1] = "p_error"

\* the step handles a request whose body cannot be decoded
MalformedStep == submitted' # submitted /\ ~decodes(submitted'[Len(submitted')])

\* the step renders an update whose processing raises
RaisingRenderStep == renders' # renders /\ IsErrorParagraph(renders'[Len(renders')].html)

\* the response to request uid is a structured error response
ErrorResponse(uid) ==
    /\ submitted[uid].response.status = "error"
    /\ "message" \in DOMAIN submitted[uid].response

\* every request whose handling has met an error so far was answered with a
\* structured error response
ErrorsReported ==
    \A uid \in 1..Len(submitted) :
        (\/ ~decodes(submitted[uid])
         \/ \E n \in 1..Len(renders) :
               renders[n].uid = uid /\ IsErrorParagraph(renders[n].html))
        => ErrorResponse(uid)

\* C19: an error in handling an update request, a malformed payload as well as
\* an exception raised while its content is processed, is reported to the
\* requester as a structured error response, and the step in which it happens
\* neither stops the coordinator nor removes a subscriber.
C19_RequestErrorsReported ==
    [][ /\ ErrorsReported'
        /\ (MalformedStep \/ RaisingRenderStep) =>
              /\ blocked' = blocked
              /\ loop' = loop
              /\ clients' = clients
      ]_vars

\* C19, amended: a body that cannot be decoded is answered with 500 and a
\* structured error response and is not enqueued; an exception raised while the
\* content of an update is processed is not reported to the requester, who was
\* answered ok before: the error paragraph becomes the rendered HTML and is
\* broadcast to every subscriber. Neither step stops the coordinator or
\* removes a subscriber.
C19_RequestErrorsHandled ==
    [][ /\ MalformedStep =>
              /\ submitted'[Len(submitted')].response =
                    [code |-> 500, status |-> "error",
                     message |-> <<submitted'[Len(submitted')].raw>>]
              /\ UNCHANGED <<loop_ready, coordVars, calls, renders, sends, failed>>
        /\ RaisingRenderStep =>
              LET n == Len(renders')
              IN /\ submitted[renders'[n].uid].response = [code |-> 200, status |-> "ok"]
                 /\ current_html' = renders'[n].html
                 /\ {m.to : m \in sends' \ sends} = clients
                 /\ \A m \in sends' \ sends : m.html = renders'[n].html
                 /\ blocked' = blocked
                 /\ loop' = loop
                 /\ clients' = clients
                 /\ _update_count' = _update_count
      ]_vars

\* a malformed request was answered with an error response, and an update
\* whose processing raised was answered ok and its error paragraph was sent to
\* the subscriber, which is still subscribed
C19_Witness ==
    /\ \E uid \in 1..Len(submitted) : ~decodes(submitted[uid]) /\ ErrorResponse(uid)
    /\ \E n \in 1..Len(renders) :
          /\ IsErrorParagraph(renders[n].html)
          /\ submitted[renders[n].uid].response.status = "ok"
          /\ renders[n].clients = {1}
          /\ BroadcastsOf(n, 1) # {}
          /\ 1 \in clients
    /\ ~blocked

\* the process_markdown calls so far whose convert was answered from the
\* document cache, and those that did not take the except branch
CachedCalls == {n \in 1..Len(renders) : renders[n].cached}
NormalCalls == {n \in 1..Len(renders) : ~renders[n].raised}

\* C20: the cache_hits value of get_stats is the number of process_markdown
\* calls whose convert was answered from the document cache (a call that ran
\* the full pipeline adds nothing), and updates is the number of calls that
\* returned without an exception.
C20_CacheHitCounter ==
    /\ get_stats.cache_hits = Cardinality(CachedCalls)
    /\ get_stats.updates = Cardinality(NormalCalls)

\* what the counters hold: both count the calls that did not raise
CacheHitsCountsEveryNormalCall ==
    /\ get_stats.cache_hits = Cardinality(NormalCalls)
    /\ get_stats.updates = Cardinality(NormalCalls)

-----------------------------------------------------------------------------
(* Claims about wiki-link rewriting, checked under SpecWikiHtml. *)

\* a string of letters and blanks
IsPlain(s) == \A i \in 1..Len(s) : s[i] \in {"a", " "}

\* the place of the first c in s, 0 when there is none
FirstOf(s, c) ==
    IF \E i \in 1..Len(s) : s[i] = c
    THEN CHOOSE i \in 1..Len(s) : s[i] = c /\ \A j \in 1..(i - 1) : s[j] # c
    ELSE 0

\* s is one raw bracket link [[T]] or [[T|TEXT]], T and TEXT letters and
\* blanks; LinkTarget and LinkText are its T and TEXT (<<>> for no TEXT)
Inner(s) == SubSeq(s, 3, Len(s) - 2)
LinkTarget(s) ==
    IF FirstOf(Inner(s), "|") = 0 THEN Inner(s)
    ELSE SubSeq(Inner(s), 1, FirstOf(Inner(s), "|") - 1)
LinkText(s) ==
    IF FirstOf(Inner(s), "|") = 0 THEN <<>>
    ELSE SubSeq(Inner(s), FirstOf(Inner(s), "|") + 1, Len(Inner(s)))
IsBracketLink(s) ==
    /\ Len(s) >= 5
    /\ SubSeq(s, 1, 2) = <<"[", "[">> /\ SubSeq(s, Len(s) - 1, Len(s)) = <<"]", "]">>
    /\ LinkTarget(s) # <<>> /\ IsPlain(LinkTarget(s))
    /\ FirstOf(Inner(s), "|") # 0 => LinkText(s) # <<>> /\ IsPlain(LinkText(s))

\* s is one structured tag with target T and text TEXT, letters and blanks
TagTarget(s) == SubSeq(s, 2, FirstOf(s, "MID") - 1)
TagText(s) == SubSeq(s, FirstOf(s, "MID") + 1, Len(s) - 1)
IsTagLink(s) ==
    /\ Len(s) >= 5
    /\ s[1] = "TAG_OPEN" /\ s[Len(s)] = "TAG_CLOSE" /\ FirstOf(s, "MID") # 0
    /\ TagTarget(s) # <<>> /\ IsPlain(TagTarget(s))
    /\ TagText(s) # <<>> /\ IsPlain(TagText(s))

\* a link of either form is rewritten into the anchor of its target and text,
\* the text being the target when the bracket form has none; the bracket form
\* drops the blanks around both
LinksRewritten ==
    /\ IsBracketLink(last.text) =>
          last.html = anchor(strip(LinkTarget(last.text)),
                             IF FirstOf(Inner(last.text), "|") = 0
                             THEN strip(LinkTarget(last.text))
                             ELSE strip(LinkText(last.text)))
    /\ IsTagLink(last.text) =>
          last.html = anchor(TagTarget(last.text), TagText(last.text))

\* the bracket links that the second substitution finds in s, from place i on
RECURSIVE BracketLinksFrom(_, _)
BracketLinksFrom(s, i) ==
    IF i > Len(s) THEN {}
    ELSE LET m == match_pattern2(s, i)
         IN IF m.ok THEN {m} \cup BracketLinksFrom(s, m.end)
            ELSE BracketLinksFrom(s, i + 1)

\* no "[" and no markup with a quote or an angle bracket
IsClean(s) ==
    \A i \in 1..Len(s) : s[i] \notin {"["} \cup QuoteSymbols \cup AngleSymbols

\* the bracket links found in the HTML have clean targets and texts
CleanBracketLinks(html) ==
    \A m \in BracketLinksFrom(sub_pattern1(html, 1), 1) :
        IsClean(m.target) /\ IsClean(m.text)

\* C25: process_wikilink_html rewrites a raw bracket link and a structured tag
\* with the same target and text into the same anchor, the text defaulting to
\* the target, and applying it to its own output changes nothing.
C25_WikiLinkRewriting ==
    IsCall("process_wikilink_html") =>
        /\ LinksRewritten
        /\ process_wikilink_html_str(last.html) = last.html

\* C25, amended: the same, the second application changing nothing when the
\* targets and texts of the bracket links found in the HTML hold no "[", no
\* quote and no angle bracket.
C25_WikiLinkRewritingUnnested ==
    IsCall("process_wikilink_html") =>
        /\ LinksRewritten
        /\ CleanBracketLinks(last.text) =>
              process_wikilink_html_str(last.html) = last.html

\* a bracket link was rewritten into its anchor, and the anchor, given to
\* process_wikilink_html again, came back unchanged
C25_Witness ==
    /\ IsCall("process_wikilink_html")
    /\ last.same_as_prev
    /\ last.text = anchor(<<"a">>, <<"a">>)
    /\ last.html = last.text
    /\ ncalls = 2

-----------------------------------------------------------------------------
(* Further claims about the coordinator, checked under Spec. *)

\* the queue_update call stored its payload and started its timer
Completed(i) ==
    \E t \in 1..Len(tasks) : tasks[t].uid = calls[i].uid

\* C27: the loop's thread never waits for _update_lock while a coroutine
\* suspended on the same loop holds it, and every queue_update that began,
\* also one that began while _debounced_update was suspended in
\* broadcast_update with a subscriber connected, took the lock and completed.
C27_NoDeadlockOnUpdateLock ==
    /\ ~(blocked /\ _update_lock # 0)
    /\ \A i \in 1..Len(calls) : Completed(i)

\* The lock is only ever held by a task suspended in the broadcast with a
\* send pending or about to return, and the thread is stuck exactly when a
\* step that needs the lock ran meanwhile.
LockHeldOnlyWhileSending ==
    /\ _update_lock # 0 => tasks[_update_lock].state = "sending"
    /\ blocked => _update_lock # 0
    /\ (~blocked) => \A i \in 1..Len(calls) : Completed(i)

\* the debounce tasks that were created, not cancelled by queue_update and
\* not finished: asleep, or suspended in the broadcast
LiveTasks ==
    {t \in 1..Len(tasks) : tasks[t].state \in {"sleeping", "sending"}}

\* the payload of the request, as queue_update stores it
PayloadOf(uid) ==
    [content |-> submitted[uid].content, wl |-> submitted[uid].wl,
     latex |-> submitted[uid].latex, scroll |-> submitted[uid].scroll, uid |-> uid]

PendingHasItsTask ==
    /\ _pending_update # NoUpdate =>
          /\ LiveTasks = {_debounce_task}
          /\ tasks[_debounce_task].uid = _pending_update.uid
          /\ _pending_update = PayloadOf(_pending_update.uid)
    /\ Cardinality(LiveTasks) <= 1

\* C28: whenever _pending_update is set, exactly one debounce task is live
\* (created, not cancelled by a later queue_update, not finished) and it is
\* the task made by the queue_update that stored the payload; never are two
\* such tasks live; and when a queue_update returns, _pending_update is the
\* payload of that call.
C28_NoOrphanedPendingUpdate ==
    /\ []PendingHasItsTask
    /\ [][ (Len(calls') = Len(calls) + 1 /\ ~blocked') =>
              /\ _pending_update' = PayloadOf(calls'[Len(calls')].uid)
              /\ _debounce_task' = Len(tasks')
              /\ tasks'[_debounce_task'].uid = calls'[Len(calls')].uid
         ]_vars

\* a second queue_update replaced the payload of the first inside its quiet
\* window: the first task has been cancelled, the second is the live one
C28_Witness ==
    /\ Len(tasks) = 2
    /\ tasks[1].state \in {"cancel_requested", "cancelled"}
    /\ tasks[2].state = "sleeping"
    /\ _debounce_task = 2
    /\ _pending_update # NoUpdate /\ _pending_update.uid = 2

-----------------------------------------------------------------------------
(* A further claim about the document cache, checked under SpecDocCache. *)

LastHashAfterHit ==
    /\ IsCall("convert") /\ ~last.ran /\ last.n = 2
    /\ _last_hash = KeyOf(2)

====
